---- MODULE Spec2Model ----
(***************************************************************************)
(* The epistemic subsystem of talktown: evidence records (evidence.py),    *)
(* the places people are at (residence.py, Person.go_to) and the           *)
(* transmission protocols and belief queries of Person (person.py).        *)
(* Mind, the mental models and the belief facets live in mind.py and       *)
(* belief.py, the event counter in game.py; those are modelled from the    *)
(* specification.                                                          *)
(***************************************************************************)
EXTENDS Integers, Sequences, FiniteSets, TLC

\* ------------------------------------------------------------------ bounds
\* The ledger holds at most MaxEvents event numbers.
MaxEvents == 6
\* At most MaxPerceived of them are reflections and observations of reflect and observe.
MaxPerceived == 2
\* Reflections and observations are constructed directly up to event number MaxRecorded.
MaxRecorded == 2
\* A person's hair turns at most MaxGrayings times.
MaxGrayings == 1
\* The years are followed up to MaxYears years after the town was constructed.
MaxYears == 2
\* At most MaxModels mental models are constructed for one owner and subject.
MaxModels == 2
\* Salience values are followed up to MaxSalience.
MaxSalience == 3
\* The days are followed up to MaxElapsed days after the town was constructed.
MaxElapsed == 3
\* Decay passes of one owner in a row are counted up to MaxPasses.
MaxPasses == 2
\* Pieces of evidence of the other kinds are constructed directly up to event
\* number MaxConstructed.
MaxConstructed == 1

\* ------------------------------------------------------------------ the town
People == {"a", "b", "c"}
Places == {"h1", "h2"}
Entities == People \cup Places
None == "None"

\* Person.type is "person" (person.py 28), DwellingPlace.type is "residence" (residence.py 14).
type(entity) == IF entity \in People THEN "person" ELSE "residence"

\* Person.home: a and b share a home, c lives alone.
home(p) == IF p = "c" THEN "h2" ELSE "h1"

\* DwellingPlace.residents
residents(place) == {p \in People : home(p) = place}

\* House.apartment, Apartment.apartment: a and b live in a house, c in an apartment.
apartment(place) == place = "h2"

\* DwellingPlace.address: the address of the lot, for an apartment with its unit.
address(place) ==
    IF apartment(place) THEN "address of the lot of " \o place \o " (Unit #1)"
    ELSE "address of the lot of " \o place

\* DwellingPlace.name
name(place) == place \o " Residence"

\* The residence of a name.
residence_named(string) == CHOOSE place \in Places : name(place) = string

\* Game.true_year when the town is constructed.
year_of_construction == 1979

\* Game.ordinal_date when the town is constructed: the first day of that year.
ordinal_date_of_construction == 722450

\* Game.date: the date as the game spells it (the time of day is not followed).
date(day) == "Day " \o ToString(day)

\* Person.birth_year: in the year of the game a is 50 and b 47 years old, and
\* c was born 3 years before it.
birth_year(p) == CASE p = "a" -> 1929 [] p = "b" -> 1932 [] OTHER -> 1976

\* Person.father and Person.mother: a and b are the parents of c.
parents(p) == IF p = "c" THEN {"a", "b"} ELSE {}

\* Person.kids
kids(p) == {q \in People : p \in parents(q)}

\* Person.friends: b is a friend of a, not the other way round.
friends(p) == IF p = "a" THEN {"b"} ELSE {}

\* Person.best_friend
best_friend(p) == None

\* Person.immediate_family: the grandparents, parents and siblings a person is
\* born with, and everyone born since with this person among theirs.
immediate_family(p) == parents(p) \cup {q \in People : p \in parents(q)}

\* Person.ancestors: the parents and their ancestors.
ancestors(p) == parents(p)

\* Person.extended_family: the immediate family, the great-grandparents,
\* uncles, aunts, cousins, nieces and nephews (of which the town has none) a
\* person is born with, and everyone born since with this person among theirs.
extended_family(p) == immediate_family(p)

\* Personality.extroversion, in tenths.
extroversion(p) == CASE p = "a" -> 6 [] p = "b" -> 5 [] OTHER -> -3

\* The feature types that may come up in a conversation about a person, in
\* the order of config.chance_someones_feature_comes_up_in_conversation_about_them.
Features == <<"hair color">>
FeatureSet == {Features[i] : i \in 1..Len(Features)}
HairColors == {"brown", "gray", "white"}

VARIABLES
    location,                \* Person.location: a place or None
    alive,                   \* Person.alive
    age,                     \* Person.age
    true_year,               \* Game.true_year
    ordinal_date,            \* Game.ordinal_date
    people_here_now,         \* DwellingPlace.people_here_now
    hair_color,              \* the true value of Person.face.hair.color
    event_number,            \* the last event number the game assigned
    evidence,                \* the pieces of evidence constructed so far, oldest first
    mental_models,           \* Mind.mental_models: the entities each owner has a model of
    models_constructed,      \* how many mental models were constructed per (owner, subject)
    facets,                  \* the belief facet per (owner, subject, feature type)
    salience_of_other_people, \* Person.salience_of_other_people
    relationships,           \* Person.relationships: the people each owner has a relationship with
    interacted,              \* Relationship.interacted_this_timestep per (owner, subject)
    last_error,              \* the exception the last call raised, or None
    pc,                      \* where the running socialize call is
    conv,                    \* the locals of the running socialize call
    came_up,                 \* whether a feature came up in the last step of a turn
    ingest_log,              \* the consider_new_evidence calls of the last step of a turn
    decayed                  \* the decay pass the last step was, if it was one

vars == <<location, alive, age, true_year, ordinal_date, people_here_now, hair_color, event_number, evidence, mental_models,
          models_constructed, facets, salience_of_other_people, relationships, interacted,
          last_error, pc, conv, came_up, ingest_log, decayed>>

\* ------------------------------------------------------------------ ground truth
\* Person.get_feature: the live value of a feature of a person; the chain of
\* branches ends without a value for any other feature type.
get_feature(person, feature_type) ==
    CASE feature_type = "home" -> name(home(person))
      [] feature_type = "home address" -> address(home(person))
      [] feature_type = "hair color" -> hair_color[person]
      [] OTHER -> None

\* DwellingPlace.get_feature: the live value of a feature of a residence; any
\* other feature type is no key of its dictionary.
get_feature_of_place(place, feature_type) ==
    CASE feature_type = "home is apartment" -> (IF apartment(place) THEN "yes" ELSE "no")
      [] feature_type = "home address" -> address(place)
      [] OTHER -> "KeyError"

\* ------------------------------------------------------------------ evidence.py
\* Game.assign_event_number: the next number of the global counter.
assign_event_number(counter) == counter + 1

\* PieceOfEvidence.__init__: the fields every piece of evidence starts with.
\* (stamped with the date instead of an event number)
PieceOfEvidence_timestep(kind, subject, source, counter) ==
    [type |-> kind, location |-> location[source],
     time |-> date(ordinal_date), ordinal_date |-> ordinal_date,
     event_number |-> ordinal_date,
     subject |-> subject, source |-> source, recipient |-> None,
     eavesdropper |-> None, attribute_transferred |-> None,
     beliefs_evidenced |-> {}, adjusted_strength |-> None]

PieceOfEvidence(kind, subject, source, counter) ==
    [type |-> kind, location |-> location[source],
     time |-> date(ordinal_date), ordinal_date |-> ordinal_date,
     event_number |-> assign_event_number(counter),
     subject |-> subject, source |-> source, recipient |-> None,
     eavesdropper |-> None, attribute_transferred |-> None,
     beliefs_evidenced |-> {}, adjusted_strength |-> None]

\* Lie.__init__, Statement.__init__, Eavesdropping.__init__: the piece gets
\* the dictionary teller_belief_strength, empty at first.
with_teller_belief_strength(piece) ==
    [type |-> piece.type, location |-> piece.location,
     time |-> piece.time, ordinal_date |-> piece.ordinal_date,
     event_number |-> piece.event_number,
     subject |-> piece.subject, source |-> piece.source, recipient |-> piece.recipient,
     eavesdropper |-> piece.eavesdropper,
     attribute_transferred |-> piece.attribute_transferred,
     beliefs_evidenced |-> piece.beliefs_evidenced,
     adjusted_strength |-> piece.adjusted_strength,
     teller_belief_strength |-> <<>>]

\* The AssertionErrors of evidence.py, by their messages.
NotThemself == "AssertionError: attempted to reflect about someone who is not themself"
DifferentLocation == "AssertionError: attempted to observe someone in a different location"
NotLocatedThere == "AssertionError: attempted to observe a place they are not located at"

\* Reflection.__init__: the assertion after the superclass constructor.
Reflection_unchecked(subject, source) == TRUE

Reflection_assert(subject, source) == subject = source

\* Observation.__init__: the assertion after the superclass constructor.
Observation_samehome(subject, source) ==
    IF type(subject) = "person"
    THEN location[source] = location[subject]
    ELSE location[source] \in Places

Observation_assert(subject, source) ==
    IF type(subject) = "person"
    THEN location[source] = location[subject]
    ELSE location[source] = subject

\* Statement.__init__
Statement(subject, source, recipient, counter) ==
    with_teller_belief_strength(
        [PieceOfEvidence("statement", subject, source, counter) EXCEPT !.recipient = recipient])

\* Declaration.__init__
\* (the recipient not stored)
Declaration_unaddressed(subject, source, recipient, counter) ==
    PieceOfEvidence("declaration", subject, source, counter)

Declaration(subject, source, recipient, counter) ==
    [PieceOfEvidence("declaration", subject, source, counter) EXCEPT !.recipient = recipient]

\* Eavesdropping.__init__
Eavesdropping(subject, source, recipient, eavesdropper, counter) ==
    with_teller_belief_strength(
        [PieceOfEvidence("eavesdropping", subject, source, counter)
            EXCEPT !.recipient = recipient, !.eavesdropper = eavesdropper])

\* Confabulation.__init__
Confabulation(subject, source, counter) ==
    PieceOfEvidence("confabulation", subject, source, counter)

\* Lie.__init__
Lie(subject, source, recipient, counter) ==
    with_teller_belief_strength(
        [PieceOfEvidence("lie", subject, source, counter) EXCEPT !.recipient = recipient])

\* Mutation.__init__; the string of the mutated belief is not followed.
Mutation(subject, source, counter) ==
    PieceOfEvidence("mutation", subject, source, counter)

\* Transference.__init__: the facet transferred from is the source's belief
\* about a feature of another person.
Transference(subject, source, belief_facet_transferred_from, counter) ==
    [PieceOfEvidence("transference", subject, source, counter)
        EXCEPT !.attribute_transferred = belief_facet_transferred_from]

\* Forgetting.__init__
Forgetting(subject, source, counter) ==
    PieceOfEvidence("forgetting", subject, source, counter)

\* The kinds of evidence that are constructed by a conversation or by the
\* deterioration of a belief.
OtherKinds ==
    {"confabulation", "lie", "statement", "declaration", "eavesdropping", "mutation",
     "transference", "forgetting"}

\* The constructor call for a kind, with the arguments its signature takes.
construct(kind, subject, source, recipient, eavesdropper, transferred_from, counter) ==
    CASE kind = "confabulation" -> Confabulation(subject, source, counter)
      [] kind = "lie" -> Lie(subject, source, recipient, counter)
      [] kind = "statement" -> Statement(subject, source, recipient, counter)
      [] kind = "declaration" -> Declaration(subject, source, recipient, counter)
      [] kind = "eavesdropping" ->
            Eavesdropping(subject, source, recipient, eavesdropper, counter)
      [] kind = "mutation" -> Mutation(subject, source, counter)
      [] kind = "transference" -> Transference(subject, source, transferred_from, counter)
      [] OTHER -> Forgetting(subject, source, counter)

\* ------------------------------------------------------------------ belief.py, mind.py
\* The feature types a DwellingPlaceModel holds a facet for.
PlaceFeatures == <<"home address", "home is apartment">>

\* The feature types a mental model holds a facet for: those of a
\* PersonMentalModel and those of a DwellingPlaceModel.
AllFeatures == {"hair color", "home", "home address", "home is apartment"}

\* The feature types a mental model of this entity holds, in the order they are built up.
features_of(entity) ==
    IF type(entity) = "person" THEN <<"hair color", "home">> ELSE PlaceFeatures

\* The live value of a feature of a person or of a place.
true_value(entity, feature_type) ==
    IF type(entity) = "person" THEN get_feature(entity, feature_type)
    ELSE get_feature_of_place(entity, feature_type)

\* Belief strength is clamped within [strength_floor, strength_cap].
strength_floor == 0
strength_cap == 3

\* The weight of a piece of evidence by its kind: what one perceives oneself
\* outweighs what one is told, and one's own telling weighs least.
evidence_weight(kind) ==
    CASE kind \in {"reflection", "observation"} -> 3
      [] kind \in {"statement", "eavesdropping"} -> 2
      [] OTHER -> 1

\* The marker of a forgotten value.
Forgotten == ""

\* A key no evidence has established a value for. A facet keeps, besides its
\* value, strength and evidence, the piece of evidence that supported its
\* value most recently (0: none), the value it held when it was forgotten
\* and the strength frozen at that point.
NoFacet ==
    [value |-> None, strength |-> 0, evidence |-> <<>>, latest_support |-> 0,
     forgotten_value |-> None, adjusted_strength |-> 0]

\* The state the protocols of one call work on.
World ==
    [ev |-> evidence, n |-> event_number, mm |-> mental_models,
     mc |-> models_constructed, fc |-> facets, log |-> <<>>, err |-> None]

Min(x, y) == IF x < y THEN x ELSE y
Max(x, y) == IF x > y THEN x ELSE y

\* The facet once the piece of evidence is attributed to it, with the value
\* and the strength it then has.
attribute(facet, value, strength, piece) ==
    [facet EXCEPT !.value = value, !.strength = strength, !.evidence = Append(@, piece)]

\* Facet aggregation: create, reinforce, reinstate, supplant or log a
\* contradiction.
\* (reinforcement without the cap)
ingest_uncapped(facet, value, piece, weight) ==
    IF facet.value = None
    THEN attribute(facet, value, weight, piece)
    ELSE IF facet.value = value
    THEN attribute(facet, value, facet.strength + 1, piece)
    ELSE IF facet.value = Forgotten /\ facet.forgotten_value = value
    THEN attribute(facet, value, Min(strength_cap, facet.adjusted_strength + weight), piece)
    ELSE IF weight > facet.strength
    THEN attribute(facet, value, weight, piece)
    ELSE attribute(facet, facet.value, Max(strength_floor, facet.strength - 1), piece)

\* (a contradiction supplants the value whatever its weight)
ingest_credulous(facet, value, piece, weight) ==
    IF facet.value = None
    THEN attribute(facet, value, weight, piece)
    ELSE IF facet.value = value
    THEN attribute(facet, value, Min(strength_cap, facet.strength + 1), piece)
    ELSE IF facet.value = Forgotten /\ facet.forgotten_value = value
    THEN attribute(facet, value, Min(strength_cap, facet.adjusted_strength + weight), piece)
    ELSE attribute(facet, value, weight, piece)

\* (a forgotten value that resurfaces is learnt afresh)
ingest_afresh(facet, value, piece, weight) ==
    IF facet.value = None
    THEN attribute(facet, value, weight, piece)
    ELSE IF facet.value = value
    THEN attribute(facet, value, Min(strength_cap, facet.strength + 1), piece)
    ELSE IF weight > facet.strength
    THEN attribute(facet, value, weight, piece)
    ELSE attribute(facet, facet.value, Max(strength_floor, facet.strength - 1), piece)

ingest(facet, value, piece, weight) ==
    IF facet.value = None
    THEN attribute(facet, value, weight, piece)
    ELSE IF facet.value = value
    THEN attribute(facet, value, Min(strength_cap, facet.strength + 1), piece)
    ELSE IF facet.value = Forgotten /\ facet.forgotten_value = value
    THEN attribute(facet, value, Min(strength_cap, facet.adjusted_strength + weight), piece)
    ELSE IF weight > facet.strength
    THEN attribute(facet, value, weight, piece)
    ELSE attribute(facet, facet.value, Max(strength_floor, facet.strength - 1), piece)

\* Facet.__init__: the facet constructed on a piece of evidence is added to
\* the beliefs the piece evidences.
evidence_a_belief(ev, piece, owner, subject, feature_type, value) ==
    [ev EXCEPT ![piece].beliefs_evidenced = @ \cup {<<owner, subject, feature_type, value>>}]

\* Facet.adjust_strength_of_forgotten_evidence: the strength a facet had when
\* its value was supplanted is frozen in the piece of evidence that supported
\* the value last (as a numeral: TLC compares a string with strings only).
\* (the piece stamped anew with the day it was adjusted)
adjust_strength_restamping(ev, facet) ==
    IF facet.latest_support = 0 THEN ev
    ELSE [ev EXCEPT ![facet.latest_support].adjusted_strength = ToString(facet.strength),
                    ![facet.latest_support].ordinal_date = ordinal_date,
                    ![facet.latest_support].time = date(ordinal_date)]

adjust_strength_of_forgotten_evidence(ev, facet) ==
    IF facet.latest_support = 0 THEN ev
    ELSE [ev EXCEPT ![facet.latest_support].adjusted_strength = ToString(facet.strength)]

\* The dictionary teller_belief_strength of a piece told: a feature type that
\* comes up is mapped to the strength of the teller's belief at that time.
note_teller_belief_strength(ev, fc, piece, subject, feature_type) ==
    IF "teller_belief_strength" \notin DOMAIN ev[piece] THEN ev
    ELSE [ev EXCEPT
            ![piece].teller_belief_strength =
                [f \in DOMAIN @ \cup {feature_type} |->
                    IF f = feature_type
                    THEN fc[ev[piece].source][subject][feature_type].strength
                    ELSE @[f]]]

\* MentalModel.consider_new_evidence: the owner's facet for feature_type ingests
\* the piece of evidence (an index of the ledger) proposing feature_value. A
\* piece the facet holds the value of from now on is its latest support; a
\* value that changes makes a new facet on the piece, and the facet it
\* supplants, if there was one, has its strength frozen.
consider_new_evidence(w, owner, subject, feature_type, feature_value, piece) ==
    LET old == w.fc[owner][subject][feature_type]
        taken == ingest(old, feature_value, piece, evidence_weight(w.ev[piece].type))
        new == [taken EXCEPT !.latest_support =
                                IF taken.value = feature_value THEN piece ELSE @]
        noted == note_teller_belief_strength(w.ev, w.fc, piece, subject, feature_type)
        frozen == IF new.value # old.value /\ old.value # None /\ old.value # Forgotten
                  THEN adjust_strength_of_forgotten_evidence(noted, old)
                  ELSE noted
        evidenced == IF new.value # old.value
                     THEN evidence_a_belief(frozen, piece, owner, subject, feature_type,
                                            new.value)
                     ELSE frozen
    IN  [w EXCEPT
            !.ev = evidenced,
            !.fc[owner][subject][feature_type] = new,
            !.log = Append(@, [owner |-> owner, piece |-> piece,
                               feature_type |-> feature_type, value |-> feature_value])]

\* MentalModel.build_up: an observation or reflection is routed to every
\* feature type of the subject, with the subject's live value.
RECURSIVE build_up_from(_, _, _, _, _)
build_up_from(w, owner, subject, piece, i) ==
    IF i > Len(features_of(subject)) THEN w
    ELSE build_up_from(
            consider_new_evidence(w, owner, subject, features_of(subject)[i],
                                  true_value(subject, features_of(subject)[i]), piece),
            owner, subject, piece, i + 1)

build_up(w, owner, subject, piece) == build_up_from(w, owner, subject, piece, 1)

\* PersonMentalModel.__init__, DwellingPlaceModel.__init__: the new model
\* registers itself in the owner's mind under its subject and is built up
\* from the observation or reflection, if one is given (0: none).
MentalModel(w, owner, subject, piece) ==
    LET registered == [w EXCEPT !.mm[owner] = @ \cup {subject},
                                !.mc[owner][subject] = @ + 1]
    IN  IF piece = 0 THEN registered ELSE build_up(registered, owner, subject, piece)

\* ------------------------------------------------------------------ person.py: perceiving
\* Reflection(subject, source): the event number is drawn by the superclass
\* constructor before the assertion is evaluated.
\* (the assertion evaluated before an event number is drawn)
new_Reflection_asserting_first(w, subject, source) ==
    IF Reflection_assert(subject, source)
    THEN [w EXCEPT !.n = assign_event_number(@),
                   !.ev = Append(@, PieceOfEvidence("reflection", subject, source, w.n))]
    ELSE [w EXCEPT !.err = NotThemself]

new_Reflection(w, subject, source) ==
    IF Reflection_assert(subject, source)
    THEN [w EXCEPT !.n = assign_event_number(@),
                   !.ev = Append(@, PieceOfEvidence("reflection", subject, source, w.n))]
    ELSE [w EXCEPT !.n = assign_event_number(@), !.err = NotThemself]

\* Observation(subject, source)
new_Observation(w, subject, source) ==
    IF Observation_assert(subject, source)
    THEN [w EXCEPT !.n = assign_event_number(@),
                   !.ev = Append(@, PieceOfEvidence("observation", subject, source, w.n))]
    ELSE [w EXCEPT !.n = assign_event_number(@),
                   !.err = IF type(subject) = "person" THEN DifferentLocation
                           ELSE NotLocatedThere]

\* Person.reflect
reflect(w, self) ==
    LET made == new_Reflection(w, self, self)
    IN  IF made.err # None THEN made
        ELSE IF self \notin made.mm[self]
        THEN MentalModel(made, self, self, Len(made.ev))
        ELSE build_up(made, self, self, Len(made.ev))

\* Person._form_or_build_up_mental_model
form_or_build_up_mental_model(w, self, subject) ==
    LET made == new_Observation(w, subject, self)
    IN  IF made.err # None THEN made
        ELSE IF subject \notin made.mm[self]
        THEN MentalModel(made, self, subject, Len(made.ev))
        ELSE build_up(made, self, subject, Len(made.ev))

\* Person.observe: the loop over the things this person happens to observe,
\* in the order the set yields them; an exception ends the call.
RECURSIVE observe_each(_, _, _, _)
observe_each(w, self, things, i) ==
    IF i > Len(things) \/ w.err # None THEN w
    ELSE observe_each(form_or_build_up_mental_model(w, self, things[i]), self, things, i + 1)

\* The sequences without repetition over a set: the orders a loop over a
\* subset of it can take.
Orders(S) == {s \in UNION {[1..k -> S] : k \in 0..Cardinality(S)} :
                \A i, j \in DOMAIN s : i # j => s[i] # s[j]}

Range(s) == {s[i] : i \in DOMAIN s}

\* The variables a call on the world record leaves behind.
Commit(w) ==
    /\ evidence' = w.ev
    /\ event_number' = w.n
    /\ mental_models' = w.mm
    /\ models_constructed' = w.mc
    /\ facets' = w.fc
    /\ last_error' = w.err

Idle == pc = "idle"

\* The ledger has room for the statement and the declaration of a turn.
RoomForATurn == event_number + 2 <= MaxEvents

\* How many pieces of the ledger are reflections and observations.
Perceived ==
    Cardinality({i \in DOMAIN evidence : evidence[i].type \in {"reflection", "observation"}})

\* Person.reflect()
Reflect(self) ==
    /\ Idle
    /\ event_number < MaxEvents
    /\ Perceived < MaxPerceived
    /\ Commit(reflect(World, self))
    /\ came_up' = FALSE
    /\ ingest_log' = <<>>
    /\ decayed' = <<>>
    /\ UNCHANGED <<alive, age, true_year, ordinal_date, location, people_here_now, hair_color, salience_of_other_people,
                   relationships, interacted, pc, conv>>

\* Person.observe: the place this person is at and the others there.
\* (the people of this person's home counted in, wherever they are)
things_to_observe_and_household(self) ==
    {location[self]}
      \cup ((people_here_now[location[self]] \cup residents(home(self))) \ {self})

things_to_observe(self) ==
    {location[self]} \cup (people_here_now[location[self]] \ {self})

\* Person.observe(): a person with no location has no place to look around in.
Observe(self) ==
    /\ Idle
    /\ IF location[self] = None
       THEN /\ last_error' = "AttributeError"
            /\ UNCHANGED <<evidence, event_number, mental_models, models_constructed, facets>>
       ELSE \E things \in Orders(things_to_observe(self)) :
                /\ event_number + Len(things) <= MaxEvents
                /\ Perceived + Len(things) <= MaxPerceived
                /\ Commit(observe_each(World, self, things, 1))
    /\ came_up' = FALSE
    /\ ingest_log' = <<>>
    /\ decayed' = <<>>
    /\ UNCHANGED <<alive, age, true_year, ordinal_date, location, people_here_now, hair_color, salience_of_other_people,
                   relationships, interacted, pc, conv>>

\* A Reflection constructed for any subject and source.
RecordReflection(subject, source) ==
    /\ Idle
    /\ event_number < MaxRecorded
    /\ Commit(new_Reflection(World, subject, source))
    /\ came_up' = FALSE
    /\ ingest_log' = <<>>
    /\ decayed' = <<>>
    /\ UNCHANGED <<alive, age, true_year, ordinal_date, location, people_here_now, hair_color, salience_of_other_people,
                   relationships, interacted, pc, conv>>

\* An Observation constructed for any subject and source.
RecordObservation(subject, source) ==
    /\ Idle
    /\ event_number < MaxRecorded
    /\ Commit(new_Observation(World, subject, source))
    /\ came_up' = FALSE
    /\ ingest_log' = <<>>
    /\ decayed' = <<>>
    /\ UNCHANGED <<alive, age, true_year, ordinal_date, location, people_here_now, hair_color, salience_of_other_people,
                   relationships, interacted, pc, conv>>

\* A piece of evidence of another kind constructed for any subject, source,
\* recipient, eavesdropper and facet transferred from.
RecordEvidence(kind, subject, source, recipient, eavesdropper, transferred_from) ==
    /\ Idle
    /\ event_number < MaxConstructed
    /\ evidence' = Append(evidence, construct(kind, subject, source, recipient, eavesdropper,
                                              transferred_from, event_number))
    /\ event_number' = assign_event_number(event_number)
    /\ last_error' = None
    /\ came_up' = FALSE
    /\ ingest_log' = <<>>
    /\ decayed' = <<>>
    /\ UNCHANGED <<alive, age, true_year, ordinal_date, location, people_here_now, hair_color, mental_models, models_constructed,
                   facets, salience_of_other_people, relationships, interacted, pc, conv>>

\* Person.go_to: who is at each place once this person has left the place
\* they were at and, if they live, is added to those at the destination.
\* (without leaving the place they were at)
here_after_staying(self, destination, living) ==
    [place \in Places |->
        IF destination = place /\ living
        THEN people_here_now[place] \cup {self} ELSE people_here_now[place]]

here_after(self, destination, living) ==
    [place \in Places |->
        LET left == IF location[self] = place
                    THEN people_here_now[place] \ {self} ELSE people_here_now[place]
        IN  IF destination = place /\ living THEN left \cup {self} ELSE left]

\* Person.go_to: set.remove raises a KeyError for a person who is not among
\* those at the place they are located at.
go_to(self, destination, living) ==
    IF location[self] # None /\ self \notin people_here_now[location[self]]
    THEN /\ last_error' = "KeyError"
         /\ UNCHANGED <<location, people_here_now>>
    ELSE /\ location' = [location EXCEPT ![self] = destination]
         /\ people_here_now' = here_after(self, destination, living)
         /\ last_error' = None

\* Person.go_to(destination)
GoTo(self, destination) ==
    /\ Idle
    /\ go_to(self, destination, alive[self])
    /\ came_up' = FALSE
    /\ ingest_log' = <<>>
    /\ decayed' = <<>>
    /\ UNCHANGED <<alive, age, true_year, ordinal_date, hair_color, event_number, evidence, mental_models,
                   models_constructed, facets, salience_of_other_people, relationships,
                   interacted, pc, conv>>

\* A death: the person is no longer alive and goes to the cemetery.
Die(self, cemetery) ==
    /\ Idle
    /\ alive[self]
    /\ alive' = [alive EXCEPT ![self] = FALSE]
    /\ go_to(self, cemetery, FALSE)
    /\ came_up' = FALSE
    /\ ingest_log' = <<>>
    /\ decayed' = <<>>
    /\ UNCHANGED <<age, true_year, ordinal_date, hair_color, event_number, evidence, mental_models,
                   models_constructed, facets, salience_of_other_people, relationships,
                   interacted, pc, conv>>

\* config.age_when_people_start_graying
age_when_people_start_graying == 48

\* How often the hair has turned when it is brown, gray and white.
grayings(color) == CASE color = "brown" -> 0 [] color = "gray" -> 1 [] OTHER -> 2

\* Person.grow_older: the hair turns gray, or white if it is gray already.
new_color_str(color) == IF color # "gray" THEN "gray" ELSE "white"

\* Person.grow_older(): the age is brought up to the year; past the age at
\* which people start graying a roll decides whether the hair turns. (Going
\* bald, starting to work and leaving town are not followed: hair length is
\* no feature of the town, and nobody comes of age within MaxYears.)
GrowOlder(self) ==
    /\ Idle
    /\ age' = [age EXCEPT ![self] = true_year - birth_year(self)]
    /\ \E roll \in BOOLEAN :
         IF age'[self] > age_when_people_start_graying /\ roll
         THEN /\ grayings(hair_color[self]) < MaxGrayings
              /\ hair_color' = [hair_color EXCEPT ![self] = new_color_str(@)]
         ELSE hair_color' = hair_color
    /\ last_error' = None
    /\ came_up' = FALSE
    /\ ingest_log' = <<>>
    /\ decayed' = <<>>
    /\ UNCHANGED <<alive, true_year, ordinal_date, location, people_here_now, event_number, evidence,
                   mental_models, models_constructed, facets, salience_of_other_people,
                   relationships, interacted, pc, conv>>

\* Game: a year passes, and the date with it. Nobody's age follows until
\* they grow older.
AdvanceYear ==
    /\ Idle
    /\ true_year < year_of_construction + MaxYears
    /\ true_year' = true_year + 1
    /\ ordinal_date' = ordinal_date + (IF true_year % 4 = 0 THEN 366 ELSE 365)
    /\ came_up' = FALSE
    /\ ingest_log' = <<>>
    /\ decayed' = <<>>
    /\ UNCHANGED <<alive, age, location, people_here_now, hair_color, event_number, evidence,
                   mental_models, models_constructed, facets, salience_of_other_people,
                   relationships, interacted, last_error, pc, conv>>

\* Game: days pass within the year.
AdvanceDays(days) ==
    /\ Idle
    /\ ordinal_date + days <= ordinal_date_of_construction + MaxElapsed
    /\ ordinal_date' = ordinal_date + days
    /\ came_up' = FALSE
    /\ ingest_log' = <<>>
    /\ decayed' = <<>>
    /\ UNCHANGED <<alive, age, true_year, location, people_here_now, hair_color, event_number,
                   evidence, mental_models, models_constructed, facets,
                   salience_of_other_people, relationships, interacted, last_error, pc, conv>>

\* ------------------------------------------------------------------ person.py: socializing
\* The locals of a socialize call that is not running.
NoConv ==
    [initiator |-> None, interlocutors |-> <<>>, interlocutor |-> None, subjects |-> <<>>,
     person_in_question |-> None, talker |-> None, listener |-> None,
     statement |-> 0, declaration |-> 0, eavesdropping |-> 0, eavesdropper |-> None,
     feature |-> 0]

\* Person.get_knowledge_about_person: None without a mental model of the
\* person; else the branch of the feature type. The believed home is
\* answered as a plain string; the home address is the address facet of the
\* owner's mental model of the believed home; a feature type without a
\* branch is answered with None.
get_knowledge_about_person(fc, mm, owner, other_person, feature_type) ==
    IF other_person \notin mm[owner] THEN None
    ELSE LET its_home == fc[owner][other_person]["home"].value
         IN  CASE feature_type = "home" ->
                    (IF ~(its_home = None \/ its_home = "") THEN its_home ELSE None)
               [] feature_type = "home address" ->
                    (IF ~(its_home = None \/ its_home = "")
                        /\ residence_named(its_home) \in mm[owner]
                     THEN fc[owner][residence_named(its_home)]["home address"].value
                     ELSE None)
               [] feature_type = "hair color" ->
                    fc[owner][other_person]["hair color"].value
               [] OTHER -> None

\* A value Python takes for false: None, or the empty string of a forgotten belief.
Falsy(value) == value = None \/ value = ""

\* config.amount_of_people_people_talk_about_floor
amount_of_people_people_talk_about_floor == 1

\* int() of a number given in tenths: truncation toward zero.
int_of_tenths(x) == IF x >= 0 THEN x \div 10 ELSE -((-x) \div 10)

\* Person._exchange_information: how many people the two talk about. The
\* conditional expressions bind weaker than the sums around them.
how_many_people_we_talk_about(self, interlocutor) ==
    LET n == IF interlocutor \in friends(self)
             THEN int_of_tenths(extroversion(self) + extroversion(interlocutor) + 20)
             ELSE IF self \in friends(interlocutor) THEN 0 + 2
             ELSE IF interlocutor = best_friend(self) THEN 0 + 1
             ELSE IF self = best_friend(interlocutor) THEN 0 + 1
             ELSE 0
    IN  IF n < amount_of_people_people_talk_about_floor
        THEN amount_of_people_people_talk_about_floor ELSE n

\* dict.get(entity, 0.0) on a salience map.
salience_get(owner, entity) ==
    IF entity \in DOMAIN salience_of_other_people[owner]
    THEN salience_of_other_people[owner][entity] ELSE 0

\* Person._exchange_information: the combined salience of a person to the two.
salience_scores(self, interlocutor, entity) ==
    salience_get(self, entity) + salience_get(interlocutor, entity)

\* Person._exchange_information: the people either of the two has a mental model of.
all_the_people_we_know_about(self, interlocutor) ==
    {e \in mental_models[self] \cup mental_models[interlocutor] : type(e) = "person"}

\* How often x occurs in the sequence s: list.count.
count(s, x) == Cardinality({i \in DOMAIN s : s[i] = x})

\* list.sort(key=..., reverse=True): a stable sort by descending key; items
\* of equal key keep the order they had.
RECURSIVE insert_by_key(_, _, _)
insert_by_key(sorted, x, key) ==
    IF sorted = <<>> THEN <<x>>
    ELSE IF key[Head(sorted)] >= key[x]
    THEN <<Head(sorted)>> \o insert_by_key(Tail(sorted), x, key)
    ELSE <<x>> \o sorted

RECURSIVE sort_from(_, _, _, _)
sort_from(s, i, sorted, key) ==
    IF i > Len(s) THEN sorted
    ELSE sort_from(s, i + 1, insert_by_key(sorted, s[i], key), key)

sort_descending(s, key) == sort_from(s, 1, <<>>, key)

\* The orders in which a loop can go through all of a set.
iterations(S) == {s \in Orders(S) : Len(s) = Cardinality(S)}

\* The first n items of a sequence, all of it if it has fewer.
take(s, n) == SubSeq(s, 1, Min(n, Len(s)))

\* heapq.nlargest(n, salience_scores, key=salience_scores.get): the first n
\* of the candidates sorted by descending score, candidates of equal score in
\* the order the dictionary yields them.
\* (the first n the dictionary yields, whatever their scores)
nlargest_as_they_come(n, candidates, self, interlocutor) ==
    {take(order, n) : order \in iterations(candidates)}

nlargest(n, candidates, self, interlocutor) ==
    {take(sort_descending(order,
                          [e \in candidates |-> salience_scores(self, interlocutor, e)]),
          n) : order \in iterations(candidates)}

\* Person._decide_to_instigate_social_interaction: the people the chance of
\* instigating an interaction with is above zero.
\* (without the test for the other person being this person)
may_instigate_with_anyone(self) ==
    {p \in people_here_now[location[self]] : age[p] >= 5}

may_instigate_with(self) ==
    {p \in people_here_now[location[self]] : p # self /\ age[p] >= 5}

\* Where a socialize call goes on after an exchange, a subject or a turn is done.
Continue(c) ==
    IF c.subjects # <<>> THEN "about"
    ELSE IF c.interlocutors # <<>> THEN "exchange"
    ELSE "idle"

\* Person.socialize: the people who live with this person, wherever they are.
\* (this person counted among them)
housemates_and_self(self) == residents(home(self))

housemates(self) == residents(home(self)) \ {self}

\* Person.socialize: the people due an interaction exchange information with
\* this person only in the full-fidelity simulation.
\* (whatever the fidelity of the simulation)
exchanges_at_any_fidelity(due, missing_timesteps_to_account_for) == due

exchanges(due, missing_timesteps_to_account_for) ==
    IF missing_timesteps_to_account_for = 1 THEN due ELSE <<>>

\* Person.socialize: the loop comes to a person: an Acquaintance is
\* constructed unless there is a relationship already, and the relationship
\* progresses, which marks the two as having interacted this timestep.
meet(met, self, person) == [met EXCEPT ![self] = @ \cup {person}]

meet_each(met, self, people) == [met EXCEPT ![self] = @ \cup people]

\* Person.socialize: once the exchange with one person is over the loop comes
\* to the next one.
meet_the_next(met, c) ==
    IF Continue(c) = "exchange" THEN meet(met, c.initiator, Head(c.interlocutors)) ELSE met

\* Person.socialize(missing_timesteps_to_account_for): the loop over the
\* people this person decides to interact with where they are, then the loop
\* over the people of their home. Each person in turn gets a relationship
\* and, unless the two interacted already this timestep, the relationship
\* progresses and, in the full-fidelity simulation, the two exchange
\* information before the loop comes to the next person. The step goes up
\* to the first exchange; conv.interlocutors holds the one exchanged with
\* and after them those the loops have yet to come to.
Socialize(self, missing_timesteps_to_account_for) ==
    /\ Idle
    /\ RoomForATurn
    /\ IF location[self] = None
       THEN /\ last_error' = "Exception"
            /\ UNCHANGED <<relationships, interacted, pc, conv>>
       ELSE \E picked \in Orders(may_instigate_with(self)),
               mates \in iterations(housemates(self)) :
            LET Fresh(p) == p \notin interacted[self]
                Later(p) == p \notin interacted[self] /\ p \notin Range(picked)
                due == SelectSeq(picked, Fresh) \o SelectSeq(mates, Later)
                talks == exchanges(due, missing_timesteps_to_account_for)
            IN  /\ IF talks = <<>>
                   THEN /\ relationships' = meet_each(relationships, self,
                                                      Range(picked) \cup Range(mates))
                        /\ interacted' = meet_each(interacted, self,
                                                   Range(picked) \cup Range(mates))
                        /\ conv' = NoConv
                        /\ pc' = "idle"
                   ELSE /\ relationships' = meet(relationships, self, Head(talks))
                        /\ interacted' = meet(interacted, self, Head(talks))
                        /\ conv' = [NoConv EXCEPT !.initiator = self, !.interlocutors = talks]
                        /\ pc' = "exchange"
                /\ last_error' = None
    /\ came_up' = FALSE
    /\ ingest_log' = <<>>
    /\ decayed' = <<>>
    /\ UNCHANGED <<alive, age, true_year, ordinal_date, location, people_here_now, hair_color, event_number, evidence,
                   mental_models, models_constructed, facets, salience_of_other_people>>

\* Person._exchange_information(interlocutor): the people to talk about.
ExchangeInformation ==
    /\ pc = "exchange"
    /\ RoomForATurn
    /\ LET self == conv.initiator
           interlocutor == Head(conv.interlocutors)
       IN  \E people_we_will_talk_about \in
                nlargest(how_many_people_we_talk_about(self, interlocutor),
                         all_the_people_we_know_about(self, interlocutor),
                         self, interlocutor) :
             LET c == [conv EXCEPT !.interlocutor = interlocutor,
                                   !.interlocutors = Tail(@),
                                   !.subjects = people_we_will_talk_about]
             IN  /\ pc' = Continue(c)
                 /\ conv' = IF Continue(c) = "idle" THEN NoConv ELSE c
                 /\ relationships' = meet_the_next(relationships, c)
                 /\ interacted' = meet_the_next(interacted, c)
    /\ came_up' = FALSE
    /\ ingest_log' = <<>>
    /\ decayed' = <<>>
    /\ UNCHANGED <<alive, age, true_year, ordinal_date, location, people_here_now, hair_color, event_number, evidence,
                   mental_models, models_constructed, facets, salience_of_other_people,
                   last_error>>

\* Person._exchange_information_about_a_person, before the turns: both get a
\* mental model of the person in question, if they have none.
\* (owner and subject taken for one another in the constructor call)
ensure_model_of_owner(w, owner, subject) ==
    IF subject \notin w.mm[owner] THEN MentalModel(w, subject, owner, 0) ELSE w

ensure_model(w, owner, subject) ==
    IF subject \notin w.mm[owner] THEN MentalModel(w, owner, subject, 0) ELSE w

\* Person._exchange_information_about_a_person: the two take the talker's
\* role in this order, and the other one of the two listens.
\* (the interlocutor before the initiator)
talkers_interlocutor_first(self, interlocutor) == <<interlocutor, self>>

talkers(self, interlocutor) == <<self, interlocutor>>

listener_to(talker, self, interlocutor) == IF talker # self THEN self ELSE interlocutor

AboutAPerson ==
    /\ pc = "about"
    /\ RoomForATurn
    /\ LET self == conv.initiator
           person_in_question == Head(conv.subjects)
           talker == talkers(self, conv.interlocutor)[1]
       IN  /\ Commit(ensure_model(ensure_model(World, self, person_in_question),
                                  conv.interlocutor, person_in_question))
           /\ conv' = [conv EXCEPT !.person_in_question = person_in_question,
                                   !.subjects = Tail(@),
                                   !.talker = talker,
                                   !.listener = listener_to(talker, self, conv.interlocutor)]
    /\ pc' = "turn"
    /\ came_up' = FALSE
    /\ ingest_log' = <<>>
    /\ decayed' = <<>>
    /\ UNCHANGED <<alive, age, true_year, ordinal_date, location, people_here_now, hair_color, salience_of_other_people,
                   relationships, interacted>>

\* Person._exchange_information_about_a_person: the pieces of evidence of a
\* turn, as the talker's side of the conversation constructs them.
turn_statement(subject, talker, listener, counter) ==
    Statement(subject, talker, listener, counter)

turn_declaration_to_self(subject, talker, listener, counter) ==
    Declaration(subject, talker, talker, counter)

turn_declaration(subject, talker, listener, counter) ==
    Declaration(subject, talker, listener, counter)

turn_eavesdropping(subject, talker, listener, eavesdropper, counter) ==
    Eavesdropping(subject, talker, listener, eavesdropper, counter)

\* Person._exchange_information_about_a_person: the people who can overhear
\* are those where the initiator of the exchange is.
\* (the listener counted among those who can overhear)
people_in_earshot_but_talker(self, talker, listener) ==
    people_here_now[location[self]] \ {talker}

people_in_earshot(self, talker, listener) ==
    people_here_now[location[self]] \ {talker, listener}

\* Person._exchange_information_about_a_person: the eavesdropping is
\* constructed and the eavesdropper gets a mental model of the person in
\* question, if they have none.
overhear(w, subject, talker, listener, eavesdropper) ==
    ensure_model(
        [w EXCEPT
           !.n = assign_event_number(@),
           !.ev = Append(@, turn_eavesdropping(subject, talker, listener, eavesdropper, w.n))],
        eavesdropper, subject)

\* The start of a turn: the statement and the declaration are constructed;
\* someone in earshot may be picked and, if the roll says so, an
\* eavesdropping is constructed and the eavesdropper gets a mental model of
\* the person in question. conv.eavesdropper keeps the one picked only when
\* the eavesdropping happens.
BeginTurn ==
    /\ pc = "turn"
    /\ \E eavesdropper \in people_in_earshot(conv.initiator, conv.talker, conv.listener)
                             \cup {None} :
         LET subject == conv.person_in_question
             overheard == eavesdropper # None
             w1 == [World EXCEPT
                      !.n = assign_event_number(@),
                      !.ev = Append(@, turn_statement(subject, conv.talker, conv.listener,
                                                      World.n))]
             w2 == [w1 EXCEPT
                      !.n = assign_event_number(@),
                      !.ev = Append(@, turn_declaration(subject, conv.talker, conv.listener,
                                                        w1.n))]
             w3 == IF overheard
                   THEN overhear(w2, subject, conv.talker, conv.listener, eavesdropper)
                   ELSE w2
         IN  /\ event_number + (IF overheard THEN 3 ELSE 2) <= MaxEvents
             /\ Commit(w3)
             /\ conv' = [conv EXCEPT !.statement = Len(w1.ev), !.declaration = Len(w2.ev),
                                     !.eavesdropping = IF overheard THEN Len(w3.ev) ELSE 0,
                                     !.eavesdropper = eavesdropper,
                                     !.feature = 1]
    /\ pc' = "features"
    /\ came_up' = FALSE
    /\ ingest_log' = <<>>
    /\ decayed' = <<>>
    /\ UNCHANGED <<alive, age, true_year, ordinal_date, location, people_here_now, hair_color, salience_of_other_people,
                   relationships, interacted>>

\* The talker's belief as the three facets are given it: the value of the
\* talker's facet, read once before the listener considers the statement.
conveyed_value_reread(w, talker, listener, subject, feature_type) ==
    w.fc[listener][subject][feature_type].value

conveyed_value(w, talker, listener, subject, feature_type) ==
    w.fc[talker][subject][feature_type].value

\* Whether the talker has something to say about the feature type.
talker_knows_always(w, talker, subject, feature_type) == TRUE

talker_knows(w, talker, subject, feature_type) ==
    ~Falsy(get_knowledge_about_person(w.fc, w.mm, talker, subject, feature_type))

\* The order in which the three consider the new evidence.
convey_talker_first(w, c, feature_type, value) ==
    LET told == consider_new_evidence(w, c.talker, c.person_in_question, feature_type,
                                      value, c.declaration)
        heard == consider_new_evidence(told, c.listener, c.person_in_question,
                                       feature_type, value, c.statement)
    IN  IF c.eavesdropping # 0
        THEN consider_new_evidence(heard, c.eavesdropper, c.person_in_question,
                                   feature_type, value, c.eavesdropping)
        ELSE heard

convey(w, c, feature_type, value) ==
    LET heard == consider_new_evidence(w, c.listener, c.person_in_question, feature_type,
                                       value, c.statement)
        told == consider_new_evidence(heard, c.talker, c.person_in_question,
                                      feature_type, value, c.declaration)
    IN  IF c.eavesdropping # 0
        THEN consider_new_evidence(told, c.eavesdropper, c.person_in_question,
                                   feature_type, value, c.eavesdropping)
        ELSE told

\* One feature type of the turn, once the roll says it comes up.
feature_comes_up(w, c, feature_type) ==
    IF talker_knows(w, c.talker, c.person_in_question, feature_type)
    THEN convey(w, c, feature_type,
                conveyed_value(w, c.talker, c.listener, c.person_in_question, feature_type))
    ELSE w

\* One pass of the loop over the feature types of a turn: the roll, and what
\* the talker conveys if the feature comes up. After the last feature type
\* the interlocutor takes the talker's role, or the exchange goes on.
Feature ==
    /\ pc = "features"
    /\ \E roll \in BOOLEAN :
         LET w == IF roll THEN feature_comes_up(World, conv, Features[conv.feature])
                  ELSE World
         IN  /\ Commit(w)
             /\ came_up' = roll
             /\ ingest_log' = w.log
    /\ decayed' = <<>>
    /\ IF conv.feature < Len(Features)
       THEN /\ conv' = [conv EXCEPT !.feature = @ + 1]
            /\ pc' = "features"
            /\ UNCHANGED <<relationships, interacted>>
       ELSE IF conv.talker = talkers(conv.initiator, conv.interlocutor)[1]
       THEN /\ conv' = [conv EXCEPT !.talker = talkers(conv.initiator, conv.interlocutor)[2],
                                    !.listener =
                                        listener_to(talkers(conv.initiator, conv.interlocutor)[2],
                                                    conv.initiator, conv.interlocutor),
                                    !.statement = 0, !.declaration = 0,
                                    !.eavesdropping = 0, !.eavesdropper = None,
                                    !.feature = 0]
            /\ pc' = "turn"
            /\ UNCHANGED <<relationships, interacted>>
       ELSE LET c == [conv EXCEPT !.person_in_question = None, !.talker = None,
                                  !.listener = None, !.statement = 0, !.declaration = 0,
                                  !.eavesdropping = 0, !.eavesdropper = None,
                                  !.feature = 0]
            IN  /\ pc' = Continue(c)
                /\ conv' = IF Continue(c) = "idle" THEN NoConv ELSE c
                /\ relationships' = meet_the_next(relationships, c)
                /\ interacted' = meet_the_next(interacted, c)
    /\ UNCHANGED <<alive, age, true_year, ordinal_date, location, people_here_now, hair_color, salience_of_other_people>>

\* ------------------------------------------------------------------ person.py: backstory
\* Person.implant_knowledge: everyone this person has a relationship with or
\* a salience value for.
all_the_people_i_should_know_about(self) ==
    relationships[self] \cup DOMAIN salience_of_other_people[self]

\* Person.known_relation_to_me: whether the list of relations is not empty.
\* Of the relations it goes through the town has: self, father and mother,
\* sons and daughters, best friend, friend, acquaintance (someone an
\* Acquaintance was constructed for) and, kept only if this person has a
\* mental model of the parent or child they hinge on, the best friend or a
\* friend of a parent or of a child.
known_relation_to_me(self, person) ==
    \/ person = self
    \/ person \in parents(self)
    \/ person \in kids(self)
    \/ person = best_friend(self)
    \/ person \in friends(self)
    \/ person \in relationships[self]
    \/ \E hinge \in (parents(self) \cup kids(self)) \cap mental_models[self] :
          person = best_friend(hinge) \/ person \in friends(hinge)

\* Person.implant_knowledge: the salience behind the chance of an implant.
salience_of_subject(self, person) ==
    salience_get(self, person)
      + (IF person \in relationships[self] \/ known_relation_to_me(self, person)
         THEN 1 ELSE 0)

\* Person.implant_knowledge: the people whose implant happens for sure, and
\* those for whom a roll decides.
implant_will_happen(self) ==
    {person \in all_the_people_i_should_know_about(self) :
        person \in immediate_family(self) \/ person \in friends(self) \/ person = self}

implant_may_happen(self) ==
    {person \in all_the_people_i_should_know_about(self) \ implant_will_happen(self) :
        salience_of_subject(self, person) > 0}

\* PersonMentalModel(owner, subject, None, implant): the new model registers
\* itself like any other and holds the subject's live values where the owner
\* had no belief.
implanted_model(w, owner, subject) ==
    LET registered == MentalModel(w, owner, subject, 0)
    IN  [registered EXCEPT
            !.fc[owner][subject] =
                [f \in AllFeatures |->
                    IF f \in Range(features_of(subject)) /\ @[f].value = None
                    THEN [@[f] EXCEPT !.value = true_value(subject, f),
                                      !.strength = evidence_weight("implant")]
                    ELSE @[f]]]

RECURSIVE implant_each(_, _, _)
implant_each(w, self, people) ==
    IF people = {} THEN w
    ELSE LET person == CHOOSE q \in people : TRUE
         IN  implant_each(implanted_model(w, self, person), self, people \ {person})

\* Person.implant_knowledge()
ImplantKnowledge(self) ==
    /\ Idle
    /\ \E rolled \in SUBSET implant_may_happen(self) :
         LET people == IF age[self] < 4 THEN {} ELSE implant_will_happen(self) \cup rolled
         IN  /\ \A person \in people : models_constructed[self][person] < MaxModels
             /\ Commit(implant_each(World, self, people))
    /\ came_up' = FALSE
    /\ ingest_log' = <<>>
    /\ decayed' = <<>>
    /\ UNCHANGED <<alive, age, true_year, ordinal_date, location, people_here_now, hair_color, salience_of_other_people,
                   relationships, interacted, pc, conv>>

\* ------------------------------------------------------------------ person.py: queries
\* Person.get_knowledge_about_place: None without a mental model of the
\* place; whether the home is an apartment is answered with a plain "yes" or
\* "no" by the truth value of the facet; a feature type without a branch is
\* answered with None.
get_knowledge_about_place(fc, mm, owner, place, feature_type) ==
    IF place \notin mm[owner] THEN None
    ELSE CASE feature_type = "home is apartment" ->
                (IF ~Falsy(fc[owner][place]["home is apartment"].value)
                 THEN "yes" ELSE "no")
           [] feature_type = "home address" ->
                fc[owner][place]["home address"].value
           [] OTHER -> None

\* Person.belief: with the look-ups of the mental model unguarded, an entity
\* the owner has no model of is a KeyError.
belief_unguarded(owner, entity, feature_type) ==
    IF entity \notin mental_models[owner] THEN "KeyError"
    ELSE facets[owner][entity][feature_type].value

\* Person.belief
belief(owner, entity, feature_type) ==
    IF entity = None THEN None
    ELSE IF entity \notin mental_models[owner] THEN None
    ELSE IF type(entity) = "person"
    THEN get_knowledge_about_person(facets, mental_models, owner, entity, feature_type)
    ELSE get_knowledge_about_place(facets, mental_models, owner, entity, feature_type)

\* The Facet object Person.belief returns, as the subject and the feature
\* type it is about; <<>> if the answer is None or a plain string.
belief_facet_object(owner, entity, feature_type) ==
    IF belief(owner, entity, feature_type) = None THEN <<>>
    ELSE IF type(entity) = "person"
    THEN CASE feature_type = "home address" ->
                <<residence_named(facets[owner][entity]["home"].value), "home address">>
           [] feature_type = "hair color" -> <<entity, "hair color">>
           [] OTHER -> <<>>
    ELSE IF feature_type = "home address" THEN <<entity, "home address">>
    ELSE <<>>

\* Facet.accurate: the believed value against the subject's live value.
accurate(entity, feature_type, value) == value = true_value(entity, feature_type)

\* Person.accurate_belief: what the call returns, or the exception it raises.
\* A falsy answer ends the condition before the attribute is read; a plain
\* string has no attribute accurate.
accurate_belief(owner, entity, feature_type) ==
    LET belief_facet == belief(owner, entity, feature_type)
        object == belief_facet_object(owner, entity, feature_type)
    IN  IF Falsy(belief_facet) THEN "False"
        ELSE IF object = <<>> THEN "AttributeError"
        ELSE IF accurate(object[1], object[2], belief_facet) THEN "True"
        ELSE "False"

\* Person.inaccurate_belief
inaccurate_belief(owner, entity, feature_type) ==
    LET belief_facet == belief(owner, entity, feature_type)
        object == belief_facet_object(owner, entity, feature_type)
    IN  IF Falsy(belief_facet) THEN "False"
        ELSE IF object = <<>> THEN "AttributeError"
        ELSE IF ~accurate(object[1], object[2], belief_facet) THEN "True"
        ELSE "False"

\* Person.sources: the owner's facets about the entity are picked out of
\* all_belief_facets, which is a set: with a feature type given there is the
\* one facet, with none the facets come in whatever order the set yields
\* them, which is any order. Each order is a sequence of feature types.
all_my_relevant_beliefs(entity, feature_type) ==
    IF entity = None THEN {<<>>}
    ELSE IF feature_type # None THEN {<<feature_type>>}
    ELSE iterations(Range(features_of(entity)))

\* Person.sources: the sources collected, the set having yielded the facets
\* in the given order: facet by facet and, within a facet, in the order of
\* its evidence.
RECURSIVE all_my_sources(_, _, _, _)
all_my_sources(owner, entity, feature_type, order) ==
    IF order = <<>> THEN <<>>
    ELSE [k \in DOMAIN facets[owner][entity][Head(order)].evidence |->
            evidence[facets[owner][entity][Head(order)].evidence[k]].source]
         \o all_my_sources(owner, entity, feature_type, Tail(order))

\* Person.sources: the list is sorted in place by a key that counts in the
\* list itself; while list.sort runs the list is empty, so every count is 0.
sources(owner, entity, feature_type, order) ==
    LET collected == all_my_sources(owner, entity, feature_type, order)
        the_list_while_sorting == <<>>
        key == [source \in People |-> count(the_list_while_sorting, source)]
    IN  sort_descending(collected, key)

\* Person.top_source
top_source(owner, entity, feature_type, order) ==
    IF sources(owner, entity, feature_type, order) = <<>> THEN None
    ELSE sources(owner, entity, feature_type, order)[1]

\* ------------------------------------------------------------------ belief.py: decay
\* How much strength a belief loses per unit of time without support.
decay_rate == 1

\* The facets of an owner that hold a value: those a decay pass goes through.
held_facets(w, owner) ==
    {k \in Entities \X AllFeatures : ~Falsy(w.fc[owner][k[1]][k[2]].value)}

\* The days since the piece of evidence that supported the value of a facet
\* most recently; knowledge that was implanted counts from the construction
\* of the town.
elapsed_since_support(ev, facet) ==
    ordinal_date - (IF facet.latest_support = 0 THEN ordinal_date_of_construction
                    ELSE ev[facet.latest_support].ordinal_date)

\* A Forgetting is constructed and supplants the value of the facet with the
\* marker; the value and the strength the facet had are kept for the value to
\* be reinstated, the strength is frozen in the piece that supported the
\* value last, and the facet of the marker is a belief the Forgetting evidences.
supplanted_by_a_forgetting(w, owner, subject, feature_type) ==
    LET facet == w.fc[owner][subject][feature_type]
        piece == Len(w.ev) + 1
        made == Append(w.ev, Forgetting(subject, owner, w.n))
    IN  [w EXCEPT
            !.n = assign_event_number(@),
            !.ev = evidence_a_belief(adjust_strength_of_forgotten_evidence(made, facet),
                                     piece, owner, subject, feature_type, Forgotten),
            !.fc[owner][subject][feature_type] =
                [attribute(facet, Forgotten, strength_floor, piece)
                    EXCEPT !.latest_support = piece,
                           !.forgotten_value = facet.value,
                           !.adjusted_strength = facet.strength]]

\* Facet.decay_strength: the strength goes down with the time elapsed since
\* the facet was last supported, not below the floor; a facet that gets down
\* to the floor has its value supplanted by a Forgetting.
\* (every pass costs a unit of time at least)
decay_strength_by_the_pass(w, owner, subject, feature_type) ==
    LET facet == w.fc[owner][subject][feature_type]
        elapsed == Max(1, elapsed_since_support(w.ev, facet))
        strength == Max(strength_floor, facet.strength - decay_rate * elapsed)
    IN  IF strength > strength_floor
        THEN [w EXCEPT !.fc[owner][subject][feature_type].strength = strength]
        ELSE supplanted_by_a_forgetting(w, owner, subject, feature_type)

decay_strength(w, owner, subject, feature_type) ==
    LET facet == w.fc[owner][subject][feature_type]
        elapsed == elapsed_since_support(w.ev, facet)
        strength == Max(strength_floor, facet.strength - decay_rate * elapsed)
    IN  IF strength > strength_floor
        THEN [w EXCEPT !.fc[owner][subject][feature_type].strength = strength]
        ELSE supplanted_by_a_forgetting(w, owner, subject, feature_type)

\* The decay pass over the facets of an owner, in the order the set of
\* facets yields them.
RECURSIVE decay_each(_, _, _, _)
decay_each(w, owner, keys, i) ==
    IF i > Len(keys) THEN w
    ELSE decay_each(decay_strength(w, owner, keys[i][1], keys[i][2]), owner, keys, i + 1)

\* decay_all(owner): the batched decay of the facets the owner holds. The
\* passes an owner makes in a row are counted.
DecayAll(owner) ==
    /\ Idle
    /\ \E keys \in iterations(held_facets(World, owner)) :
          /\ decay_each(World, owner, keys, 1).n <= MaxEvents
          /\ Commit(decay_each(World, owner, keys, 1))
    /\ came_up' = FALSE
    /\ ingest_log' = <<>>
    /\ decayed' = <<[owner |-> owner,
                     passes |-> IF decayed # <<>> /\ decayed[1].owner = owner
                                THEN Min(MaxPasses, decayed[1].passes + 1) ELSE 1]>>
    /\ UNCHANGED <<alive, age, true_year, ordinal_date, location, people_here_now, hair_color, salience_of_other_people,
                   relationships, interacted, pc, conv>>

\* ------------------------------------------------------------------ person.py: salience
\* The changes of salience that callers pass, in whole units.
SalienceChanges == {-2, -1, 1, 2}

\* The owners whose salience is updated: a holds a value for themself alone,
\* c for everyone.
SalienceOwners == {"a", "c"}

\* Person.update_salience_of, on the owner's salience map.
\* (the sum stored as it is)
update_salience_of_unclamped(salience, entity, change) ==
    [e \in DOMAIN salience \cup {entity} |->
        IF e = entity
        THEN (IF entity \in DOMAIN salience THEN salience[entity] ELSE 0) + change
        ELSE salience[e]]

update_salience_of(salience, entity, change) ==
    [e \in DOMAIN salience \cup {entity} |->
        IF e = entity
        THEN Max(0, (IF entity \in DOMAIN salience THEN salience[entity] ELSE 0) + change)
        ELSE salience[e]]

\* Person.update_salience_of(entity, change)
UpdateSalienceOf(self, entity, change) ==
    /\ Idle
    /\ salience_get(self, entity) + change <= MaxSalience
    /\ salience_of_other_people' =
          [salience_of_other_people EXCEPT
              ![self] = update_salience_of(@, entity, change)]
    /\ last_error' = None
    /\ came_up' = FALSE
    /\ ingest_log' = <<>>
    /\ decayed' = <<>>
    /\ UNCHANGED <<alive, age, true_year, ordinal_date, location, people_here_now, hair_color, event_number, evidence,
                   mental_models, models_constructed, facets, relationships, interacted,
                   pc, conv>>

\* ------------------------------------------------------------------ the town at the start
\* config.salience_increment_from_relationship_change
salience_increment_self == 2
salience_increment_immediate_family == 1
salience_increment_extended_family == 1
salience_increment_ancestor == 1

\* A loop of update_salience_of calls with one change over a set of people.
RECURSIVE update_salience_of_each(_, _, _)
update_salience_of_each(salience, entities, change) ==
    IF entities = {} THEN salience
    ELSE LET entity == CHOOSE e \in entities : TRUE
         IN  update_salience_of_each(update_salience_of(salience, entity, change),
                                     entities \ {entity}, change)

\* Person._init_salience_values, on the family handed in: the loops over
\* the ancestors, the extended family and the immediate family, then self.
salience_values(self, my_ancestors, my_extended_family, my_immediate_family) ==
    update_salience_of(
        update_salience_of_each(
            update_salience_of_each(
                update_salience_of_each(<<>>, my_ancestors, salience_increment_ancestor),
                my_extended_family, salience_increment_extended_family),
            my_immediate_family, salience_increment_immediate_family),
        self, salience_increment_self)

\* Person._init_salience_values, called in the town as it stands.
init_salience_values(p) ==
    salience_values(p, ancestors(p), extended_family(p), immediate_family(p))

\* Person._init_update_familial_attributes_of_family_members: everyone in the
\* immediate and in the extended family the newborn has at birth (the parents,
\* in this town) counts the newborn among theirs from now on and holds them
\* that much more salient.
update_familial_attributes_of_family_members(salience, self) ==
    [member \in DOMAIN salience |->
        IF member \in parents(self)
        THEN update_salience_of(
                 update_salience_of(salience[member], self,
                                    salience_increment_immediate_family),
                 self, salience_increment_extended_family)
        ELSE salience[member]]

\* The people constructed by PersonExNihilo.__init__, who have no family yet
\* when their salience values are set.
founders == {p \in People : parents(p) = {}}

\* Person.__init__ of someone born in town: the family is told, then the
\* newborn's own salience values are set.
born(salience, self) ==
    LET told == update_familial_attributes_of_family_members(salience, self)
    IN  [p \in DOMAIN told \cup {self} |->
            IF p = self
            THEN salience_values(self, ancestors(self), parents(self), parents(self))
            ELSE told[p]]

RECURSIVE born_each(_, _)
born_each(salience, newborns) ==
    IF newborns = {} THEN salience
    ELSE LET self == CHOOSE p \in newborns : TRUE
         IN  born_each(born(salience, self), newborns \ {self})

\* Person.age once a person is constructed: PersonExNihilo.__init__ takes it
\* from the year of the game and the birth year; whoever is constructed from
\* a birth starts at 0, until grow_older brings the age up to the year.
age_as_constructed(p) ==
    IF p \in founders THEN year_of_construction - birth_year(p) ELSE 0

\* Person.salience_of_other_people once everyone is constructed: the
\* founders first, then those born to them.
salience_as_constructed ==
    born_each([p \in founders |-> salience_values(p, {}, {}, {})], People \ founders)

\* Where the people are when a timestep's socializing begins: all at the home
\* of a and b, or a visiting c while b is at home.
Placements ==
    {[p \in People |-> "h1"],
     [p \in People |-> IF p = "b" THEN "h1" ELSE "h2"]}

Minds ==
    /\ alive = [p \in People |-> TRUE]
    /\ true_year = year_of_construction
    /\ ordinal_date = ordinal_date_of_construction
    /\ age = [p \in People |-> age_as_constructed(p)]
    /\ hair_color = [p \in People |-> "brown"]
    /\ event_number = 0
    /\ evidence = <<>>
    /\ mental_models = [p \in People |-> {}]
    /\ models_constructed = [p \in People |-> [e \in Entities |-> 0]]
    /\ facets = [p \in People |-> [e \in Entities |-> [f \in AllFeatures |-> NoFacet]]]
    /\ salience_of_other_people = salience_as_constructed
    /\ relationships = [p \in People |-> {}]
    /\ interacted = [p \in People |-> {}]
    /\ last_error = None
    /\ pc = "idle"
    /\ conv = NoConv
    /\ came_up = FALSE
    /\ ingest_log = <<>>
    /\ decayed = <<>>

\* The town once everyone has gone where the timestep has them.
Init ==
    /\ location \in Placements
    /\ people_here_now = [place \in Places |-> {p \in People : location[p] = place}]
    /\ Minds

\* The town right after construction: nobody has a location yet.
InitConstructed ==
    /\ location = [p \in People |-> None]
    /\ people_here_now = [place \in Places |-> {}]
    /\ Minds

Next ==
    \/ \E p \in People : Reflect(p)
    \/ \E p \in People : Observe(p)
    \/ \E p \in People : GrowOlder(p)
    \/ \E p \in People, m \in 1..2 : Socialize(p, m)
    \/ ExchangeInformation
    \/ AboutAPerson
    \/ BeginTurn
    \/ Feature

Spec == Init /\ [][Next]_vars

NextEvidence ==
    \/ \E s \in Entities, p \in People : RecordReflection(s, p)
    \/ \E s \in Entities, p \in People : RecordObservation(s, p)
    \/ \E p \in People, d \in Places \cup {None} : GoTo(p, d)

SpecEvidence == InitConstructed /\ [][NextEvidence]_vars

NextBackstory ==
    \/ \E p \in People : Reflect(p)
    \/ \E p \in People : Observe(p)
    \/ \E p \in People : ImplantKnowledge(p)
    \/ \E p \in People, m \in 2..2 : Socialize(p, m)

SpecBackstory == Init /\ [][NextBackstory]_vars

NextKinds ==
    \/ \E kind \in OtherKinds, subject, source, recipient, eavesdropper, other \in People :
          RecordEvidence(kind, subject, source, recipient, eavesdropper,
                         "hair color of " \o other)
    \/ \E s \in Entities, p \in People : RecordReflection(s, p)
    \/ \E s \in Entities, p \in People : RecordObservation(s, p)

SpecKinds == Init /\ [][NextKinds]_vars

\* The people whose beliefs are followed as they decay.
Forgetful == {"b"}

\* Forgetting over a longer time and hearing of it again.
NextRemember ==
    \/ \E p \in People : Reflect(p)
    \/ \E p \in Forgetful : Observe(p)
    \/ \E p \in Forgetful : DecayAll(p)
    \/ AdvanceDays(MaxElapsed)
    \/ \E p \in People : Socialize(p, 1)
    \/ ExchangeInformation
    \/ AboutAPerson
    \/ BeginTurn
    \/ Feature

SpecRemember == Init /\ [][NextRemember]_vars

\* Perceiving, telling and forgetting from day to day.
NextReinforce ==
    \/ \E p \in People : Reflect(p)
    \/ \E p \in Forgetful : Observe(p)
    \/ \E p \in Forgetful : DecayAll(p)
    \/ AdvanceDays(1)
    \/ \E p \in Forgetful : Socialize(p, 1)
    \/ ExchangeInformation
    \/ AboutAPerson
    \/ BeginTurn
    \/ Feature

SpecReinforce == Init /\ [][NextReinforce]_vars

NextPresence ==
    \/ \E p \in People, d \in Places \cup {None} : GoTo(p, d)
    \/ \E p \in People, cemetery \in Places : Die(p, cemetery)

SpecPresence == InitConstructed /\ [][NextPresence]_vars

NextObserve ==
    \/ \E p \in People, d \in Places \cup {None} : GoTo(p, d)
    \/ \E p \in People : Observe(p)

SpecObserve == InitConstructed /\ [][NextObserve]_vars

\* The people whose birthdays are followed over the years: b, who is about
\* to reach the age at which people start graying, and the child c.
Growing == {"b", "c"}

\* The low-fidelity simulation: the years go by with birthdays, socializing
\* that accounts for more than one timestep, and the backstory people are given.
NextYears ==
    \/ AdvanceYear
    \/ \E p \in Growing : GrowOlder(p)
    \/ \E p \in People : ImplantKnowledge(p)
    \/ \E p \in People : Socialize(p, 2)

SpecYears == Init /\ [][NextYears]_vars

NextSalience ==
    \E p \in SalienceOwners, e \in People, change \in SalienceChanges :
        UpdateSalienceOf(p, e, change)

SpecSalience == InitConstructed /\ [][NextSalience]_vars

\* ------------------------------------------------------------------ properties
\* C1: of any two pieces of evidence, whatever their kinds and sources, the
\* one constructed later has the strictly greater event number.
C1_EventNumbersIncrease ==
    \A i, j \in DOMAIN evidence :
        i < j => evidence[i].event_number < evidence[j].event_number

\* A ledger with what was perceived, stated, declared and overheard, from
\* more than one source.
C1_Witness ==
    /\ \E i, j, k, l \in DOMAIN evidence :
          /\ evidence[i].type \in {"reflection", "observation"}
          /\ evidence[j].type = "statement"
          /\ evidence[k].type = "declaration"
          /\ evidence[l].type = "eavesdropping"
    /\ \E i, j \in DOMAIN evidence : evidence[i].source # evidence[j].source

\* C2: constructing a Reflection fails with the assertion's error and yields
\* no Reflection when the subject is not the source, and yields the
\* Reflection without an error when the subject is the source.
C2_ReflectionContract ==
    [][\A subject \in Entities, source \in People :
          RecordReflection(subject, source) =>
             IF subject = source
             THEN /\ last_error' = None
                  /\ Len(evidence') = Len(evidence) + 1
                  /\ evidence'[Len(evidence')].type = "reflection"
                  /\ evidence'[Len(evidence')].subject = subject
                  /\ evidence'[Len(evidence')].source = source
             ELSE /\ last_error' = NotThemself
                  /\ evidence' = evidence]_vars

\* A Reflection was constructed, and the construction of another has failed.
C2_Witness ==
    /\ last_error = NotThemself
    /\ \E i \in DOMAIN evidence : evidence[i].type = "reflection"

\* C3: constructing an Observation yields it exactly when the source is where
\* the subject is (a person subject) or at the subject (a place subject), and
\* fails with the assertion's error in every other case.
C3_ObservationContract ==
    [][\A subject \in Entities, source \in People :
          RecordObservation(subject, source) =>
             LET co_located ==
                   \/ subject \in People /\ location[source] = location[subject]
                   \/ subject \in Places /\ location[source] = subject
             IN  IF co_located
                 THEN /\ last_error' = None
                      /\ Len(evidence') = Len(evidence) + 1
                      /\ evidence'[Len(evidence')].type = "observation"
                      /\ evidence'[Len(evidence')].subject = subject
                      /\ evidence'[Len(evidence')].source = source
                 ELSE /\ last_error' \in {DifferentLocation, NotLocatedThere}
                      /\ evidence' = evidence]_vars

\* Someone at a place has observed it, and the construction of an Observation
\* of a place has failed.
C3_Witness ==
    /\ last_error = NotLocatedThere
    /\ \E i \in DOMAIN evidence :
          /\ evidence[i].type = "observation"
          /\ evidence[i].subject \in Places
          /\ evidence[i].location = evidence[i].subject

\* C4: for an entity that is None or that the owner has no mental model of,
\* belief is None and accurate_belief and inaccurate_belief are both False,
\* whatever the owner and the feature type; no query ends in an error.
C4_NoBeliefAboutTheUnknown ==
    \A owner \in People, entity \in Entities \cup {None}, feature_type \in AllFeatures :
        (entity = None \/ entity \notin mental_models[owner]) =>
            /\ belief(owner, entity, feature_type) = None
            /\ accurate_belief(owner, entity, feature_type) = "False"
            /\ inaccurate_belief(owner, entity, feature_type) = "False"

\* An owner who holds a belief about one person and has no model of another.
C4_Witness ==
    \E owner \in People, known, unknown \in People :
        /\ known \in mental_models[owner]
        /\ ~Falsy(belief(owner, known, "hair color"))
        /\ unknown \notin mental_models[owner]

\* The sources as the claim orders them: by how often each occurs among the
\* collected sources, most frequent first, ties in the order collected.
sources_by_frequency(owner, entity, feature_type, order) ==
    LET collected == all_my_sources(owner, entity, feature_type, order)
    IN  sort_descending(collected, [source \in People |-> count(collected, source)])

\* C5: sources returns the sources ordered by how often each occurs, most
\* frequent first, and top_source the first of them, or None if there is
\* none; for one feature type or for the entity in general, and whatever
\* the order in which the facets were gone through.
C5_SourcesByFrequency ==
    \A owner \in People, entity \in Entities, feature_type \in AllFeatures \cup {None} :
        \A order \in all_my_relevant_beliefs(entity, feature_type) :
            /\ sources(owner, entity, feature_type, order)
                  = sources_by_frequency(owner, entity, feature_type, order)
            /\ top_source(owner, entity, feature_type, order)
                  = IF sources_by_frequency(owner, entity, feature_type, order) = <<>>
                    THEN None
                    ELSE sources_by_frequency(owner, entity, feature_type, order)[1]

\* C6: when a listener with no belief about a feature of the subject is told
\* a value, the listener's belief is that value right afterwards and the
\* first of the listener's sources for it is the talker.
C6_RoundTrip ==
    [][\A talker, listener, subject \in People, feature_type \in FeatureSet :
          ( /\ pc = "features"
            /\ talker = conv.talker /\ listener = conv.listener
            /\ subject = conv.person_in_question
            /\ feature_type = Features[conv.feature]
            /\ came_up'
            /\ ~Falsy(belief(talker, subject, feature_type))
            /\ Falsy(belief(listener, subject, feature_type)) )
          => /\ belief(listener, subject, feature_type)'
                  = belief(talker, subject, feature_type)
             /\ \A order \in all_my_relevant_beliefs(subject, feature_type) :
                   sources(listener, subject, feature_type, order)'[1] = talker]_vars

\* A listener whose only evidence for a belief is the statement just heard.
C6_Witness ==
    /\ came_up
    /\ ingest_log # <<>>
    /\ LET heard == ingest_log[1]
       IN  /\ evidence[heard.piece].type = "statement"
           /\ facets[heard.owner][evidence[heard.piece].subject][heard.feature_type].evidence
                 = <<heard.piece>>

\* C7: no owner ever has a second mental model constructed for a subject.
C7_OneModelPerSubject ==
    \A owner \in People, subject \in Entities : models_constructed[owner][subject] <= 1

\* C8 as stated: every Declaration has the talker as source and as recipient.
C8_DeclarationToSelf ==
    \A i \in DOMAIN evidence :
        evidence[i].type = "declaration" => evidence[i].recipient = evidence[i].source

\* C8, amended: every turn constructs, right after its Statement, a
\* Declaration with the Statement's subject, source (the talker) and
\* recipient (the listener, not the talker); a Declaration is only ever
\* ingested by a facet of its source.
C8_DeclarationToListener ==
    /\ \A i \in DOMAIN evidence :
          evidence[i].type = "declaration" =>
             /\ evidence[i].recipient # evidence[i].source
             /\ i > 1
             /\ evidence[i - 1].type = "statement"
             /\ evidence[i - 1].subject = evidence[i].subject
             /\ evidence[i - 1].source = evidence[i].source
             /\ evidence[i - 1].recipient = evidence[i].recipient
    /\ \A i \in DOMAIN evidence :
          evidence[i].type = "statement" =>
             i < Len(evidence) /\ evidence[i + 1].type = "declaration"
    /\ pc = "features" =>
          /\ evidence[conv.declaration].type = "declaration"
          /\ evidence[conv.declaration].source = conv.talker
          /\ evidence[conv.declaration].recipient = conv.listener
    /\ \A owner \in People, subject \in Entities, feature_type \in AllFeatures :
          \A k \in DOMAIN facets[owner][subject][feature_type].evidence :
             LET piece == evidence[facets[owner][subject][feature_type].evidence[k]]
             IN  piece.type = "declaration" => piece.source = owner

\* A talker's facet has ingested the Declaration of a turn.
C8_Witness ==
    \E owner \in People, subject \in People :
        \E k \in DOMAIN facets[owner][subject]["hair color"].evidence :
            evidence[facets[owner][subject]["hair color"].evidence[k]].type = "declaration"

\* C9: when a feature comes up that the talker holds a belief about, the
\* listener ingests the Statement, then the talker the Declaration, then the
\* eavesdropper, if there is one, the Eavesdropping, each with the value the
\* talker believed before the first of them.
C9_IngestionOrder ==
    [][\A talker, listener, subject \in People, feature_type \in FeatureSet :
          ( /\ pc = "features"
            /\ talker = conv.talker /\ listener = conv.listener
            /\ subject = conv.person_in_question
            /\ feature_type = Features[conv.feature]
            /\ came_up'
            /\ ~Falsy(belief(talker, subject, feature_type)) )
          => LET value == belief(talker, subject, feature_type)
                 Call(owner, piece) ==
                    [owner |-> owner, piece |-> piece,
                     feature_type |-> feature_type, value |-> value]
                 Ingested(owner, piece) ==
                    facets'[owner][subject][feature_type].evidence
                       = Append(facets[owner][subject][feature_type].evidence, piece)
             IN  /\ evidence[conv.statement].type = "statement"
                 /\ evidence[conv.declaration].type = "declaration"
                 /\ Ingested(listener, conv.statement)
                 /\ Ingested(talker, conv.declaration)
                 /\ IF conv.eavesdropping = 0
                    THEN ingest_log' = <<Call(listener, conv.statement),
                                         Call(talker, conv.declaration)>>
                    ELSE /\ evidence[conv.eavesdropping].type = "eavesdropping"
                         /\ Ingested(conv.eavesdropper, conv.eavesdropping)
                         /\ ingest_log' = <<Call(listener, conv.statement),
                                            Call(talker, conv.declaration),
                                            Call(conv.eavesdropper, conv.eavesdropping)>>]_vars

\* A feature was conveyed to a listener, the talker and an eavesdropper.
C9_Witness ==
    /\ came_up
    /\ Len(ingest_log) = 3
    /\ evidence[ingest_log[3].piece].type = "eavesdropping"

\* C10: when a feature comes up that the talker holds no belief about, no
\* facet considers new evidence and no facet changes.
C10_NothingToConvey ==
    [][\A talker, subject \in People, feature_type \in FeatureSet :
          ( /\ pc = "features"
            /\ talker = conv.talker
            /\ subject = conv.person_in_question
            /\ feature_type = Features[conv.feature]
            /\ came_up'
            /\ Falsy(belief(talker, subject, feature_type)) )
          => /\ ingest_log' = <<>>
             /\ facets' = facets]_vars

\* A feature came up and nothing was conveyed, in a town where beliefs are held.
C10_Witness ==
    /\ came_up
    /\ ingest_log = <<>>
    /\ \E owner, subject \in People : ~Falsy(belief(owner, subject, "hair color"))

\* C11: every Eavesdropping records the talker as source, the listener as
\* recipient and as eavesdropper a third person, neither of the two; the
\* only facets that ingest it are the eavesdropper's.
C11_EavesdroppingByAThird ==
    /\ \A i \in DOMAIN evidence :
          evidence[i].type = "eavesdropping" =>
             /\ evidence[i].eavesdropper \in People \ {evidence[i].source, evidence[i].recipient}
             /\ i > 2
             /\ evidence[i - 2].type = "statement"
             /\ evidence[i].source = evidence[i - 2].source
             /\ evidence[i].recipient = evidence[i - 2].recipient
             /\ evidence[i].subject = evidence[i - 2].subject
    /\ (pc = "features" /\ conv.eavesdropping # 0) =>
          /\ evidence[conv.eavesdropping].type = "eavesdropping"
          /\ evidence[conv.eavesdropping].source = conv.talker
          /\ evidence[conv.eavesdropping].recipient = conv.listener
          /\ evidence[conv.eavesdropping].eavesdropper = conv.eavesdropper
    /\ \A owner \in People, subject \in Entities, feature_type \in AllFeatures :
          \A k \in DOMAIN facets[owner][subject][feature_type].evidence :
             LET piece == evidence[facets[owner][subject][feature_type].evidence[k]]
             IN  piece.type = "eavesdropping" => piece.eavesdropper = owner

\* An eavesdropper holds a belief whose only evidence is what was overheard.
C11_Witness ==
    \E owner \in People, subject \in People :
        LET facet == facets[owner][subject]["hair color"]
        IN  /\ Len(facet.evidence) = 1
            /\ evidence[facet.evidence[1]].type = "eavesdropping"
            /\ facet.value = hair_color[subject]

\* C12: an exchange between two people changes the mental models and the
\* facets of the two and of the eavesdropper chosen in the turn at hand, and
\* of nobody else, the person talked about included.
C12_ExchangeTouchesItsParties ==
    [][pc # "idle" =>
          LET parties ==
                IF pc = "exchange" THEN {}
                ELSE {conv.initiator, conv.interlocutor, conv.eavesdropper}
                        \cup (IF pc = "turn" THEN {conv'.eavesdropper} ELSE {})
          IN  \A p \in People \ parties :
                 /\ mental_models'[p] = mental_models[p]
                 /\ models_constructed'[p] = models_constructed[p]
                 /\ facets'[p] = facets[p]]_vars

\* What was said about someone who holds beliefs of their own was taken in
\* by others only: the person talked about neither talks, listens nor overhears.
C12_Witness ==
    /\ came_up
    /\ ingest_log # <<>>
    /\ \A k \in DOMAIN ingest_log :
          evidence[ingest_log[k].piece].subject # ingest_log[k].owner
    /\ \E k \in DOMAIN ingest_log :
          facets[evidence[ingest_log[k].piece].subject]
                [evidence[ingest_log[k].piece].subject]["hair color"].value # None

\* C13: a call of update_salience_of sets the entity's entry to the greater
\* of 0 and its previous value (0 if there was none) plus the change, and
\* leaves every other entry and every other owner's map alone; so no
\* salience value is ever below 0.
C13_SalienceFloor ==
    [][\A self \in SalienceOwners, entity \in People, change \in SalienceChanges :
          UpdateSalienceOf(self, entity, change) =>
             /\ entity \in DOMAIN salience_of_other_people'[self]
             /\ salience_of_other_people'[self][entity]
                   = Max(0, salience_get(self, entity) + change)
             /\ DOMAIN salience_of_other_people'[self]
                   = DOMAIN salience_of_other_people[self] \cup {entity}
             /\ \A e \in DOMAIN salience_of_other_people[self] \ {entity} :
                   salience_of_other_people'[self][e] = salience_of_other_people[self][e]
             /\ \A p \in People \ {self} :
                   salience_of_other_people'[p] = salience_of_other_people[p]
             /\ \A p \in People : \A e \in DOMAIN salience_of_other_people'[p] :
                   salience_of_other_people'[p][e] >= 0]_vars

\* Someone's salience for themself was brought down to the floor, and an
\* entry for somebody they had no value for stands at the floor as well.
C13_Witness ==
    \E self \in People, entity \in People :
        /\ entity \notin DOMAIN init_salience_values(self)
        /\ entity \in DOMAIN salience_of_other_people[self]
        /\ salience_of_other_people[self][entity] = 0
        /\ salience_of_other_people[self][self] = 0

\* C14: the subjects of an exchange are min(K, number of candidates) distinct
\* persons that either of the two has a mental model of (places excluded),
\* and no candidate left out has a greater combined salience than one talked
\* about, a missing salience value counting as 0.
C14_MostSalientSubjects ==
    [][pc = "exchange" =>
          LET self == conv.initiator
              interlocutor == Head(conv.interlocutors)
              candidates == (mental_models[self] \cup mental_models[interlocutor]) \cap People
              K == how_many_people_we_talk_about(self, interlocutor)
              score(e) ==
                 (IF e \in DOMAIN salience_of_other_people[self]
                  THEN salience_of_other_people[self][e] ELSE 0)
                 + (IF e \in DOMAIN salience_of_other_people[interlocutor]
                    THEN salience_of_other_people[interlocutor][e] ELSE 0)
              discussed == conv'.subjects
          IN  /\ Len(discussed) = Min(K, Cardinality(candidates))
              /\ \A i \in DOMAIN discussed : discussed[i] \in candidates
              /\ \A i, j \in DOMAIN discussed : i # j => discussed[i] # discussed[j]
              /\ \A e \in candidates, i \in DOMAIN discussed :
                    (\A j \in DOMAIN discussed : discussed[j] # e)
                       => score(e) <= score(discussed[i])]_vars

\* An exchange is about one person although the two know of more, one of
\* them less salient to the two than the one picked.
C14_Witness ==
    /\ pc = "about"
    /\ conv.person_in_question = None
    /\ Len(conv.subjects) = 1
    /\ how_many_people_we_talk_about(conv.initiator, conv.interlocutor) = 1
    /\ \E e \in all_the_people_we_know_about(conv.initiator, conv.interlocutor) :
          salience_scores(conv.initiator, conv.interlocutor, e)
             < salience_scores(conv.initiator, conv.interlocutor, conv.subjects[1])

\* K as the claim computes it: the integer part of the sum of both
\* extroversions and every bonus that applies, raised to the floor.
how_many_as_a_sum(self, interlocutor) ==
    LET n == int_of_tenths(
                extroversion(self) + extroversion(interlocutor)
                + (IF interlocutor \in friends(self) THEN 20 ELSE 0)
                + (IF self \in friends(interlocutor) THEN 20 ELSE 0)
                + (IF interlocutor = best_friend(self) THEN 10 ELSE 0)
                + (IF self = best_friend(interlocutor) THEN 10 ELSE 0))
    IN  IF n < amount_of_people_people_talk_about_floor
        THEN amount_of_people_people_talk_about_floor ELSE n

\* C15: in every exchange the number of people to talk about is the integer
\* part of the sum of both extroversions and the friendship bonuses, raised
\* to the floor; both extroversions count whether or not the two are friends.
C15_KSumsExtroversionAndBonuses ==
    [][pc = "exchange" =>
          how_many_people_we_talk_about(conv.initiator, Head(conv.interlocutors))
             = how_many_as_a_sum(conv.initiator, Head(conv.interlocutors))]_vars

\* C16 as stated: a socialize call of someone with nobody else where they are
\* raises no error, starts no exchange and changes no relationship.
C16_SocializeAloneIsNoOp ==
    [][\A self \in People, m \in 1..2 :
          ( /\ Socialize(self, m)
            /\ location[self] # None
            /\ people_here_now[location[self]] \ {self} = {} )
          => /\ last_error' = None
             /\ pc' = "idle"
             /\ relationships' = relationships
             /\ interacted' = interacted]_vars

\* The other residents of the home of a person.
household(self) == residents(home(self)) \ {self}

\* Whether nobody else is where this person is.
alone(self) == location[self] # None /\ people_here_now[location[self]] \ {self} = {}

\* C16, amended: a socialize call of someone with nobody else where they are
\* raises no error and interacts with nobody there, but goes through the
\* other residents of their home wherever those are. All of them get a
\* relationship; in the full-fidelity simulation an exchange of information
\* is begun with each one not yet interacted with this timestep. An exchange
\* of two who have no mental model of any person leaves the ledger and the
\* Minds as they are; otherwise it comes to turns, each of which constructs
\* a Statement and a Declaration between the two. The call changes nothing
\* only if every other resident already has a relationship with the caller
\* and has interacted with them this timestep.
C16_SocializeAloneKeepsToTheHousehold ==
    [][/\ \A self \in People, m \in 1..2 :
             (Socialize(self, m) /\ alone(self))
             => LET due == IF m = 1 THEN household(self) \ interacted[self] ELSE {}
                    met == IF due = {} THEN household(self)
                           ELSE {Head(conv'.interlocutors)}
                IN  /\ last_error' = None
                    /\ evidence' = evidence
                    /\ event_number' = event_number
                    /\ mental_models' = mental_models
                    /\ facets' = facets
                    /\ relationships' = [relationships EXCEPT ![self] = @ \cup met]
                    /\ interacted' = [interacted EXCEPT ![self] = @ \cup met]
                    /\ IF due = {}
                       THEN pc' = "idle" /\ conv' = NoConv
                       ELSE /\ pc' = "exchange"
                            /\ conv'.initiator = self
                            /\ Len(conv'.interlocutors) = Cardinality(due)
                            /\ Range(conv'.interlocutors) = due
                    /\ (household(self) \subseteq relationships[self] \cap interacted[self])
                       => /\ relationships' = relationships
                          /\ interacted' = interacted
                          /\ pc' = "idle"
       /\ (pc = "exchange" /\ alone(conv.initiator))
             => LET interlocutor == Head(conv.interlocutors)
                    known == {e \in mental_models[conv.initiator]
                                      \cup mental_models[interlocutor] : type(e) = "person"}
                IN  /\ interlocutor \in household(conv.initiator)
                    /\ location[interlocutor] # location[conv.initiator]
                    /\ evidence' = evidence
                    /\ IF known = {}
                       THEN /\ facets' = facets
                            /\ mental_models' = mental_models
                            /\ pc' \in {"exchange", "idle"}
                       ELSE /\ pc' = "about"
                            /\ conv'.subjects # <<>>
                            /\ Range(conv'.subjects) \subseteq known
       /\ (pc = "turn" /\ alone(conv.initiator))
             => LET n == Len(evidence)
                IN  /\ {conv.talker, conv.listener} = {conv.initiator, conv.interlocutor}
                    /\ conv.interlocutor \in household(conv.initiator)
                    /\ Len(evidence') = n + 2
                    /\ evidence'[n + 1].type = "statement"
                    /\ evidence'[n + 1].source = conv.talker
                    /\ evidence'[n + 1].recipient = conv.listener
                    /\ evidence'[n + 2].type = "declaration"
                    /\ evidence'[n + 2].source = conv.talker
                    /\ pc' = "features"]_vars

\* Someone alone where they are is in an exchange with a housemate who is
\* somewhere else: in the turn just taken one of the two took in the
\* Statement of the other, which is in the ledger.
C16_Witness ==
    /\ pc = "turn"
    /\ alone(conv.initiator)
    /\ conv.interlocutor \in household(conv.initiator)
    /\ location[conv.interlocutor] # location[conv.initiator]
    /\ \E k \in DOMAIN ingest_log :
          LET piece == evidence[ingest_log[k].piece]
              facet == facets[ingest_log[k].owner][piece.subject][ingest_log[k].feature_type]
          IN  /\ piece.type = "statement"
              /\ piece.recipient = ingest_log[k].owner
              /\ {piece.source, piece.recipient} = {conv.initiator, conv.interlocutor}
              /\ facet.value = ingest_log[k].value
              /\ facet.evidence[Len(facet.evidence)] = ingest_log[k].piece

\* C17: nobody exchanges information with themself: the initiator of a
\* socialize call is none of its interlocutors, the talker of a turn is not
\* its listener, and no Statement, Declaration or Eavesdropping has its
\* source as recipient.
C17_NeverWithOneself ==
    /\ pc # "idle" =>
          /\ conv.interlocutor # conv.initiator
          /\ \A i \in DOMAIN conv.interlocutors : conv.interlocutors[i] # conv.initiator
    /\ pc \in {"turn", "features"} =>
          /\ conv.talker # conv.listener
          /\ {conv.talker, conv.listener} = {conv.initiator, conv.interlocutor}
    /\ \A i \in DOMAIN evidence :
          evidence[i].type \in {"statement", "declaration", "eavesdropping"} =>
             evidence[i].source # evidence[i].recipient

\* The initiator of an exchange has had their turn as talker and the
\* interlocutor, someone the initiator chose where they are, is to talk next.
C17_Witness ==
    /\ pc = "turn"
    /\ conv.talker = conv.interlocutor
    /\ conv.listener = conv.initiator
    /\ location[conv.talker] = location[conv.listener]
    /\ \E i \in DOMAIN evidence :
          /\ evidence[i].type = "statement"
          /\ evidence[i].source = conv.initiator
          /\ evidence[i].recipient = conv.interlocutor

\* C18: in every piece of evidence the recipient is set exactly for a Lie,
\* Statement, Declaration or Eavesdropping, the eavesdropper exactly for an
\* Eavesdropping and the facet transferred from exactly for a Transference;
\* otherwise these fields are None.
C18_FieldsByKind ==
    \A i \in DOMAIN evidence :
        /\ evidence[i].recipient # None
              <=> evidence[i].type \in {"lie", "statement", "declaration", "eavesdropping"}
        /\ evidence[i].eavesdropper # None <=> evidence[i].type = "eavesdropping"
        /\ evidence[i].attribute_transferred # None <=> evidence[i].type = "transference"

\* A Transference was constructed, and after it an Observation.
C18_Witness ==
    /\ Len(evidence) = 2
    /\ evidence[1].type = "transference"
    /\ evidence[1].attribute_transferred # None
    /\ evidence[2].type = "observation"

\* The fields of a piece of evidence that tell what it is and where it is from.
Provenance ==
    {"type", "subject", "source", "recipient", "eavesdropper", "location", "time",
     "ordinal_date", "event_number", "attribute_transferred"}

\* C19 as stated: a piece of evidence, once constructed, stays in the ledger
\* as it was, whatever is constructed, ingested or decayed later; only its
\* adjusted strength may be written.
C19_EvidenceIsWriteOnce ==
    [][\A i \in DOMAIN evidence :
          /\ i \in DOMAIN evidence'
          /\ [evidence'[i] EXCEPT !.adjusted_strength = None]
                = [evidence[i] EXCEPT !.adjusted_strength = None]]_vars

\* C19, amended: a piece of evidence, once constructed, stays in the ledger
\* with its kind, subject, source, recipient, eavesdropper, location, time,
\* ordinal date and event number as they were, whatever is constructed,
\* ingested or decayed later. Written afterwards are its adjusted strength,
\* the beliefs it evidences and, if it was told, the strengths of the
\* teller's beliefs; the latter two only gain entries.
C19_EvidenceKeepsItsProvenance ==
    [][\A i \in DOMAIN evidence :
          /\ i \in DOMAIN evidence'
          /\ DOMAIN evidence'[i] = DOMAIN evidence[i]
          /\ \A field \in Provenance : evidence'[i][field] = evidence[i][field]
          /\ evidence[i].beliefs_evidenced \subseteq evidence'[i].beliefs_evidenced
          /\ "teller_belief_strength" \in DOMAIN evidence[i]
                => \A f \in DOMAIN evidence[i].teller_belief_strength :
                      /\ f \in DOMAIN evidence'[i].teller_belief_strength
                      /\ evidence'[i].teller_belief_strength[f]
                            = evidence[i].teller_belief_strength[f]]_vars

\* A Statement told on an earlier day holds the strength of the teller's
\* belief and evidences the belief of the listener; since then that belief
\* has decayed away, which froze its strength in the Statement and put a
\* Forgetting in the ledger.
C19_Witness ==
    \E i, j \in DOMAIN evidence :
        /\ i < j
        /\ evidence[i].type = "statement"
        /\ evidence[i].teller_belief_strength # <<>>
        /\ evidence[i].beliefs_evidenced # {}
        /\ evidence[i].adjusted_strength # None
        /\ evidence[i].ordinal_date < ordinal_date
        /\ evidence[j].type = "forgetting"
        /\ evidence[j].source = evidence[i].recipient
        /\ evidence[j].beliefs_evidenced # {}

\* C20: a facet that takes in evidence for the value it holds (perceived,
\* told, overheard or declared) does not lose strength, and after every step
\* of ingestion or decay the strength of every facet is within the floor and
\* the cap.
C20_StrengthReinforcedAndClamped ==
    [][\A owner \in People, subject \in Entities, feature_type \in AllFeatures :
          LET old == facets[owner][subject][feature_type]
              new == facets'[owner][subject][feature_type]
              last == new.evidence[Len(new.evidence)]
              same_value_proposed ==
                 /\ Len(new.evidence) = Len(old.evidence) + 1
                 /\ ~Falsy(old.value)
                 /\ \/ /\ evidence'[last].type \in {"reflection", "observation"}
                       /\ feature_type \in Range(features_of(subject))
                       /\ true_value(subject, feature_type) = old.value
                    \/ \E k \in DOMAIN ingest_log' :
                          /\ ingest_log'[k].owner = owner
                          /\ ingest_log'[k].piece = last
                          /\ ingest_log'[k].feature_type = feature_type
                          /\ ingest_log'[k].value = old.value
          IN  /\ new.strength >= strength_floor
              /\ new.strength <= strength_cap
              /\ same_value_proposed => new.strength >= old.strength]_vars

\* Someone who was told a value and then told it on holds it more strongly
\* for their own Declaration, and someone else holds a belief that decayed
\* without being forgotten.
C20_Witness ==
    /\ \E owner, subject \in People :
          LET facet == facets[owner][subject]["hair color"]
          IN  /\ Len(facet.evidence) = 2
              /\ evidence[facet.evidence[1]].type = "statement"
              /\ evidence[facet.evidence[1]].recipient = owner
              /\ evidence[facet.evidence[2]].type = "declaration"
              /\ evidence[facet.evidence[2]].source = owner
              /\ facet.strength > evidence_weight("statement")
    /\ \E owner \in People, subject \in Entities, feature_type \in AllFeatures :
          LET facet == facets[owner][subject][feature_type]
          IN  /\ ~Falsy(facet.value)
              /\ facet.latest_support # 0
              /\ facet.strength > strength_floor
              /\ facet.strength < evidence_weight(evidence[facet.latest_support].type)

\* C21: when a facet considers evidence for another value than the one it
\* holds, and the weight of the evidence is less than the facet's strength,
\* the facet keeps its value and the evidence is appended to its evidence.
C21_WeakContradictionIsLogged ==
    [][\A k \in DOMAIN ingest_log' :
          LET call == ingest_log'[k]
              old == facets[call.owner][conv.person_in_question][call.feature_type]
              new == facets'[call.owner][conv.person_in_question][call.feature_type]
          IN  ( /\ pc = "features"
                /\ old.value # None
                /\ old.value # call.value
                /\ evidence_weight(evidence[call.piece].type) < old.strength )
              => /\ new.value = old.value
                 /\ new.evidence = Append(old.evidence, call.piece)]_vars

\* A listener who had seen for themself was told another value: the belief
\* stands and the statement is the last of its evidence.
C21_Witness ==
    /\ came_up
    /\ \E k \in DOMAIN ingest_log, subject \in People :
          LET call == ingest_log[k]
              facet == facets[call.owner][subject][call.feature_type]
          IN  /\ evidence[call.piece].type = "statement"
              /\ evidence[call.piece].subject = subject
              /\ facet.evidence # <<>>
              /\ facet.evidence[Len(facet.evidence)] = call.piece
              /\ ~Falsy(facet.value)
              /\ facet.value # call.value
              /\ facet.strength >= evidence_weight("statement")

\* C22: a Forgetting that supplants the value of a facet leaves the marker
\* and freezes the value and the strength the facet had; evidence that later
\* proposes the forgotten value reinstates it with a strength of at least
\* the frozen one, and above the floor.
C22_ForgottenValueIsReinstated ==
    [][\A owner \in People, subject \in Entities, feature_type \in AllFeatures :
          LET old == facets[owner][subject][feature_type]
              new == facets'[owner][subject][feature_type]
              last == new.evidence[Len(new.evidence)]
              proposed ==
                 /\ Len(new.evidence) = Len(old.evidence) + 1
                 /\ \/ /\ evidence'[last].type \in {"reflection", "observation"}
                       /\ true_value(subject, feature_type) = old.forgotten_value
                    \/ \E k \in DOMAIN ingest_log' :
                          /\ ingest_log'[k].owner = owner
                          /\ ingest_log'[k].piece = last
                          /\ ingest_log'[k].feature_type = feature_type
                          /\ ingest_log'[k].value = old.forgotten_value
          IN  /\ (~Falsy(old.value) /\ new.value = Forgotten)
                 => /\ evidence'[last].type = "forgetting"
                    /\ new.forgotten_value = old.value
                    /\ new.adjusted_strength = old.strength
              /\ (old.value = Forgotten /\ proposed)
                 => /\ new.value = old.forgotten_value
                    /\ new.strength >= old.adjusted_strength
                    /\ new.strength > strength_floor]_vars

\* Someone who had forgotten what they were sure of was told it again: the
\* belief is back, no weaker than it was, on evidence that by itself weighs less.
C22_Witness ==
    \E owner, subject \in People :
        LET facet == facets[owner][subject]["hair color"]
            n == Len(facet.evidence)
        IN  /\ n >= 3
            /\ evidence[facet.evidence[n - 1]].type = "forgetting"
            /\ evidence[facet.evidence[n]].type = "statement"
            /\ facet.value = facet.forgotten_value
            /\ facet.adjusted_strength > evidence_weight("statement")
            /\ facet.strength >= facet.adjusted_strength

\* C23: a decay pass leaves every facet of the owner for which no time has
\* elapsed since the evidence that supported it most recently as it is, its
\* strength and its value, however many passes are made in a row; a pass
\* over an owner all of whose facets are such changes no facet and constructs
\* no evidence.
C23_DecayOfNoTimeChangesNothing ==
    [][decayed' # <<>>
          => LET owner == decayed'[1].owner
                 supported_today(facet) ==
                    /\ ~Falsy(facet.value)
                    /\ facet.latest_support # 0
                    /\ evidence[facet.latest_support].ordinal_date = ordinal_date
             IN  /\ \A subject \in Entities, feature_type \in AllFeatures :
                       supported_today(facets[owner][subject][feature_type])
                          => facets'[owner][subject][feature_type]
                                = facets[owner][subject][feature_type]
                 /\ (\A subject \in Entities, feature_type \in AllFeatures :
                        ~Falsy(facets[owner][subject][feature_type].value)
                           => supported_today(facets[owner][subject][feature_type]))
                       => /\ facets' = facets
                          /\ Len(evidence') = Len(evidence)
                          /\ event_number' = event_number]_vars

\* An owner made two decay passes in a row. One of their beliefs, weakened
\* by a contradiction, was last supported today and stands strictly between
\* the floor and the cap; another was last supported on an earlier day.
C23_Witness ==
    /\ decayed # <<>>
    /\ decayed[1].passes = MaxPasses
    /\ \E subject, other \in Entities, feature_type, another \in AllFeatures :
          LET facet == facets[decayed[1].owner][subject][feature_type]
              older == facets[decayed[1].owner][other][another]
          IN  /\ ~Falsy(facet.value)
              /\ facet.latest_support # 0
              /\ evidence[facet.latest_support].ordinal_date = ordinal_date
              /\ facet.strength > strength_floor
              /\ facet.strength < strength_cap
              /\ older.latest_support # 0
              /\ evidence[older.latest_support].ordinal_date < ordinal_date

\* C24: a socialize call of the low-fidelity simulation (a number of
\* timesteps to account for other than 1) may add relationships and mark them
\* as progressed, but starts no exchange of information: no Statement,
\* Declaration or Eavesdropping comes of it, and no mental model and no facet
\* changes.
C24_LowFidelityExchangesNothing ==
    [][/\ \A self \in People :
             Socialize(self, 2)
             => /\ pc' = "idle"
                /\ conv' = NoConv
                /\ evidence' = evidence
                /\ event_number' = event_number
                /\ mental_models' = mental_models
                /\ models_constructed' = models_constructed
                /\ facets' = facets
                /\ relationships[self] \subseteq relationships'[self]
                /\ interacted[self] \subseteq interacted'[self]
       /\ \A i \in DOMAIN evidence' :
             evidence'[i].type \notin {"statement", "declaration", "eavesdropping"}]_vars

\* The child has grown old enough for someone to socialize with them: the
\* relationship progressed this timestep, the two hold beliefs, and nothing
\* was stated, declared or overheard.
C24_Witness ==
    /\ \E self \in People :
          /\ "c" \in relationships[self]
          /\ "c" \in interacted[self]
          /\ age["c"] >= 5
          /\ ~Falsy(belief(self, self, "hair color"))
          /\ ~Falsy(belief("c", self, "hair color"))
    /\ pc = "idle"
    /\ \A i \in DOMAIN evidence :
          evidence[i].type \notin {"statement", "declaration", "eavesdropping"}

\* C25: whatever go_to calls were made, a person is among the people at a
\* place exactly when they are alive and located at that place; so the
\* living who have a location are at that one place and at no other, and
\* those with no location and the dead are at no place.
C25_PresenceFollowsLocation ==
    \A person \in People, place \in Places :
        person \in people_here_now[place] <=> (alive[person] /\ location[person] = place)

\* One person is at a place, another died and lies at a place, a third had
\* a location and departed, and the last go_to was that of a dead person.
C25_Witness ==
    /\ last_error = "KeyError"
    /\ \E person, dead, departed \in People :
          /\ alive[person] /\ location[person] \in Places
          /\ person \in people_here_now[location[person]]
          /\ ~alive[dead] /\ location[dead] \in Places
          /\ alive[departed] /\ location[departed] = None

\* C26: wherever the people have gone, observe constructs Observations only
\* of the place the observer is at and of the others who are there, never of
\* the observer; each meets the contract of an Observation and no observe
\* call ends in its assertion error.
C26_ObserveMeetsTheContract ==
    [][/\ last_error' \notin {DifferentLocation, NotLocatedThere}
       /\ \A i \in (Len(evidence) + 1)..Len(evidence') :
             LET observation == evidence'[i]
                 self == observation.source
             IN  /\ observation.type = "observation"
                 /\ observation.subject # self
                 /\ \/ observation.subject = location[self]
                    \/ observation.subject \in people_here_now[location[self]]
                 /\ observation.location = location[self]
                 /\ Observation_assert(observation.subject, self)]_vars

\* Away from home, someone has observed the place they are at and a person
\* who is there with them.
C26_Witness ==
    /\ last_error = None
    /\ \E i, j \in DOMAIN evidence :
          /\ evidence[i].type = "observation" /\ evidence[j].type = "observation"
          /\ evidence[i].source = evidence[j].source
          /\ evidence[i].location # home(evidence[i].source)
          /\ evidence[i].subject \in Places
          /\ evidence[i].subject = evidence[i].location
          /\ evidence[j].subject \in People
          /\ evidence[j].location = location[evidence[j].subject]
          /\ evidence[j].location = evidence[i].location

\* C27: for every owner, entity and feature type, accurate_belief and
\* inaccurate_belief are never both True; both are False exactly when belief
\* gives None or the marker of a forgotten value, and otherwise exactly one
\* of them is True.
C27_AccurateOrInaccurate ==
    \A owner \in People, entity \in Entities \cup {None}, feature_type \in AllFeatures :
        LET held == ~Falsy(belief(owner, entity, feature_type))
            right == accurate_belief(owner, entity, feature_type)
            wrong == inaccurate_belief(owner, entity, feature_type)
        IN  /\ ~(right = "True" /\ wrong = "True")
            /\ (right = "False" /\ wrong = "False") <=> ~held
            /\ held => ((right = "True") # (wrong = "True"))

\* C28: whoever is recorded as the eavesdropper of an Eavesdropping is at
\* the place the evidence records, the place of the talker, also in an
\* exchange of two of a household who are at different places.
C28_EavesdropperWithTheTalker ==
    \A i \in DOMAIN evidence :
        evidence[i].type = "eavesdropping" =>
            /\ evidence[i].location = location[evidence[i].source]
            /\ location[evidence[i].eavesdropper] = evidence[i].location

\* C29: in an exchange about a person the initiator talks first and the
\* interlocutor second, each to the other, and then the exchange about that
\* person is over; what a talker conveys is what the talker believes when the
\* feature comes up, so the second talker's values are read after the first
\* talker's statements were taken in.
C29_TurnsInOrder ==
    [][/\ pc = "about"
          => /\ pc' = "turn"
             /\ conv'.talker = conv.initiator
             /\ conv'.listener = conv.interlocutor
       /\ (pc = "features" /\ conv.feature = Len(Features) /\ conv.talker = conv.initiator)
          => /\ pc' = "turn"
             /\ conv'.talker = conv.interlocutor
             /\ conv'.listener = conv.initiator
             /\ conv'.person_in_question = conv.person_in_question
       /\ (pc = "features" /\ conv.feature = Len(Features) /\ conv.talker # conv.initiator)
          => /\ conv.talker = conv.interlocutor
             /\ pc' # "turn"
       /\ pc = "features"
          => \A k \in DOMAIN ingest_log' :
                ingest_log'[k].value
                   = facets[conv.talker][conv.person_in_question][ingest_log'[k].feature_type].value]_vars

\* An interlocutor who knew nothing of a feature was told it by the
\* initiator and stated it back: the initiator holds a Statement of the
\* interlocutor for the value the interlocutor has from the initiator alone.
C29_Witness ==
    \E initiator, interlocutor, subject \in People :
        LET mine == facets[initiator][subject]["hair color"]
            theirs == facets[interlocutor][subject]["hair color"]
        IN  /\ initiator # interlocutor
            /\ theirs.evidence # <<>>
            /\ evidence[theirs.evidence[1]].type = "statement"
            /\ evidence[theirs.evidence[1]].source = initiator
            /\ \A k \in DOMAIN theirs.evidence :
                  evidence[theirs.evidence[k]].source \in {initiator, interlocutor}
                  /\ evidence[theirs.evidence[k]].type \in {"statement", "declaration"}
            /\ \E k \in DOMAIN mine.evidence :
                  /\ evidence[mine.evidence[k]].type = "statement"
                  /\ evidence[mine.evidence[k]].source = interlocutor
                  /\ mine.evidence[k] > theirs.evidence[1]
            /\ mine.value = theirs.value

\* C30: the construction of a Reflection or an Observation that fails its
\* assertion has drawn its event number: the counter is one further and the
\* ledger is as it was; as every piece constructed later gets a number above
\* the counter, the number drawn by the failed construction is never given
\* to a piece of evidence.
C30_FailedConstructionDrawsANumber ==
    [][/\ last_error' \in {NotThemself, DifferentLocation, NotLocatedThere}
          => /\ event_number' = event_number + 1
             /\ evidence' = evidence
       /\ event_number' >= event_number
       /\ Len(evidence') >= Len(evidence)
       /\ \A i \in DOMAIN evidence' :
             IF i \in DOMAIN evidence
             THEN evidence'[i] = evidence[i]
             ELSE /\ evidence'[i].event_number > event_number
                  /\ evidence'[i].event_number <= event_number']_vars

\* A construction failed and the next one succeeded: the only piece of the
\* ledger has the second event number, and nothing has the first.
C30_Witness ==
    /\ last_error = None
    /\ Len(evidence) = 1
    /\ evidence[1].event_number = 2
    /\ event_number = 2

====
